---- MODULE Spec2Model ----
(***************************************************************************)
(* Model of the calculation engine of boligeie.py: the annuity schedule    *)
(* (beregn_terminbelop, beregn_amortiseringsplan), the cost allocator      *)
(* (beregn_fordeling) and the sale settlement of tab7.                     *)
(*                                                                         *)
(* Numbers.  The program computes in binary floating point.  A value is    *)
(* modelled by its exact rational value <<n, d>> (d > 0, lowest terms).    *)
(* Where the program compares a computed balance with 0 to steer the loop  *)
(* of beregn_amortiseringsplan, the rounding of the payment matters: a     *)
(* schedule value is a pair [v, e] read as v + e*ulp, ulp an infinitesimal *)
(* unit of rounding, and the payment carries e = avrunding, the direction  *)
(* in which the computed quotient deviates from the exact one (0 when the  *)
(* exact quotient is a binary fraction, hence representable).  Equality    *)
(* "within floating tolerance" is equality of the v parts.                 *)
(***************************************************************************)
EXTENDS Integers, Sequences, FiniteSets, TLC

\* ------------------------------------------------------------------ bounds
MaxLaan == 4
MaxTid == 5
MaxPris == 5
MaxKostnad == 4
MaxInntekt == 2

\* ------------------------------------------------------- program constants
MndPerAar == 12
StandardAar == 10
Ingen == -1

\* ------------------------------------------------------ exact rationals
Abs(x) == IF x < 0 THEN -x ELSE x

RECURSIVE GCD(_, _)
GCD(a, b) == IF b = 0 THEN a ELSE GCD(b, a % b)

Q(n, d) ==
    LET g == GCD(Abs(n), Abs(d))
        s == IF d < 0 THEN -1 ELSE 1
    IN  << (s * n) \div g, (s * d) \div g >>

QInt(i) == << i, 1 >>

QAdd(a, b) ==
    LET g == GCD(a[2], b[2])
        l == (a[2] \div g) * b[2]
    IN  Q(a[1] * (l \div a[2]) + b[1] * (l \div b[2]), l)

QNeg(a) == << -a[1], a[2] >>

QSub(a, b) == QAdd(a, QNeg(b))

QMul(a, b) ==
    LET g1 == GCD(Abs(a[1]), b[2])
        g2 == GCD(Abs(b[1]), a[2])
    IN  Q((a[1] \div g1) * (b[1] \div g2), (a[2] \div g2) * (b[2] \div g1))

QInv(a) == IF a[1] > 0 THEN << a[2], a[1] >> ELSE << -a[2], -a[1] >>

\* a / b for b # 0 (Python raises ZeroDivisionError for b = 0)
QDiv(a, b) == QMul(a, QInv(b))

QLt(a, b) == QSub(a, b)[1] < 0
QLe(a, b) == QSub(a, b)[1] <= 0
QGt(a, b) == QLt(b, a)

RECURSIVE QPow(_, _)
QPow(a, k) ==
    IF k < 0 THEN QInv(QPow(a, -k))
    ELSE IF k = 0 THEN QInt(1)
    ELSE IF k % 2 = 0 THEN LET h == QPow(a, k \div 2) IN QMul(h, h)
    ELSE QMul(a, QPow(a, k - 1))

RECURSIVE IsPow2(_)
IsPow2(d) == IF d = 1 THEN TRUE ELSE IF d % 2 = 1 THEN FALSE ELSE IsPow2(d \div 2)

\* a rational is a binary fraction, i.e. exactly representable as a float
Dyadic(a) == IsPow2(a[2])

\* -------------------------------------- schedule values v + e*ulp
Fl(v, e) == [v |-> v, e |-> e]
FlInt(i) == Fl(QInt(i), QInt(0))
FlSub(a, b) == Fl(QSub(a.v, b.v), QSub(a.e, b.e))
FlAdd(a, b) == Fl(QAdd(a.v, b.v), QAdd(a.e, b.e))
FlScale(a, q) == Fl(QMul(a.v, q), QMul(a.e, q))
\* a <= 0
FlLe0(a) == a.v[1] < 0 \/ (a.v[1] = 0 /\ a.e[1] <= 0)
\* a <= b
FlLe(a, b) == FlLe0(FlSub(a, b))
\* max(0, a): Python returns the first maximal argument
FlMax0(a) == IF FlLe0(a) THEN FlInt(0) ELSE a

SKATTESATS_RENTEFRADRAG == Q(22, 100)

Min(a, b) == IF a < b THEN a ELSE b

\* ------------------------------------------------------------- state
VARIABLES
    modul,                \* which part of the program the behaviour runs
    pc,                   \* position inside that part
    \* beregn_amortiseringsplan
    laan, rente, nedbetalingstid_aar, antall_aar, avrunding,
    terminbelop, mnd, gjenstaaende, plan,
    \* beregn_fordeling and its caller in tab2
    total_kostnad, inntekt_a, inntekt_b, fordeling_type, custom_split,
    kostnad_a, kostnad_b,
    \* sale settlement of tab7
    boligpris, verdiendring_prosent, salgskostnader_prosent, total_avdrag,
    gjenstaaende_laan, salgspris, salgskostnader,
    netto_salgssum, verdiendring_kr, egenkapital_a, egenkapital_b, egenkapital,
    nedbetalt_a, nedbetalt_b, total_investert_a, total_investert_b,
    total_investert, fordelingsmodell, utbetaling_a, utbetaling_b,
    scenario_resultater,
    \* ownership over time of tab5
    eierandel_a_over_tid, eierandel_b_over_tid, total_nedbetalt,
    gjenstaaende_liste, aar_i,
    \* beregn_belastningsgrad and beregn_effektiv_belastning
    boligutgifter, nettoinntekt, skattefradrag_mnd, belastningsgrad,
    effektiv_belastning,
    \* generer_renteprognose
    basis_rente, prognose_type, prognose_aar, prognose_renter,
    \* how a call of a helper function ends
    utfall,
    \* st.cache_data: stored results, the last call and the number of calls
    cache, kall, kall_nr,
    \* st.session_state.quick_saves, the clock read by datetime.now(), the
    \* text input "quick_save_name" and the button pressed in the last run
    quick_saves, klokke, save_name, knapp

planvars == << laan, rente, nedbetalingstid_aar, antall_aar, avrunding,
               terminbelop, mnd, gjenstaaende, plan >>

fordvars == << total_kostnad, inntekt_a, inntekt_b, fordeling_type, custom_split,
               kostnad_a, kostnad_b >>

oppgjorvars == << netto_salgssum, verdiendring_kr, egenkapital_a, egenkapital_b,
                  egenkapital, nedbetalt_a, nedbetalt_b, total_investert_a,
                  total_investert_b, total_investert, fordelingsmodell,
                  utbetaling_a, utbetaling_b >>

salgvars == << boligpris, verdiendring_prosent, salgskostnader_prosent,
               total_avdrag, gjenstaaende_laan, salgspris, salgskostnader >>

eiervars == << eierandel_a_over_tid, eierandel_b_over_tid, total_nedbetalt,
               gjenstaaende_liste, aar_i >>

belastvars == << boligutgifter, nettoinntekt, skattefradrag_mnd, belastningsgrad,
                 effektiv_belastning >>

prognosevars == << basis_rente, prognose_type, prognose_aar, prognose_renter >>

tilleggsvars == << scenario_resultater, eiervars, belastvars, prognosevars, utfall >>

cachevars == << cache, kall, kall_nr >>

lagringsvars == << quick_saves, klokke, save_name, knapp >>

sidevars == << cachevars, lagringsvars >>

vars == << modul, pc, planvars, fordvars, salgvars, oppgjorvars, tilleggsvars,
           sidevars >>

\* the variables of a part that a behaviour does not run
PlanHvile ==
    /\ laan = 0 /\ rente = 0 /\ nedbetalingstid_aar = 1 /\ antall_aar = 0
    /\ avrunding = 0 /\ terminbelop = FlInt(0) /\ mnd = 0
    /\ gjenstaaende = FlInt(0) /\ plan = << >>

FordHvile ==
    /\ total_kostnad = QInt(0) /\ inntekt_a = 0 /\ inntekt_b = 0
    /\ fordeling_type = "50/50" /\ custom_split = Ingen
    /\ kostnad_a = Ingen /\ kostnad_b = Ingen

SalgHvile ==
    /\ boligpris = 0 /\ verdiendring_prosent = QInt(0)
    /\ salgskostnader_prosent = QInt(0) /\ total_avdrag = QInt(0)
    /\ gjenstaaende_laan = QInt(0) /\ salgspris = QInt(0)
    /\ salgskostnader = QInt(0)

OppgjorHvile ==
    /\ netto_salgssum = QInt(0) /\ verdiendring_kr = QInt(0)
    /\ egenkapital_a = QInt(0) /\ egenkapital_b = QInt(0) /\ egenkapital = QInt(0)
    /\ nedbetalt_a = QInt(0) /\ nedbetalt_b = QInt(0)
    /\ total_investert_a = QInt(0) /\ total_investert_b = QInt(0)
    /\ total_investert = QInt(0) /\ fordelingsmodell = "Modell 1"
    /\ utbetaling_a = Ingen /\ utbetaling_b = Ingen

EierHvile ==
    /\ eierandel_a_over_tid = << >> /\ eierandel_b_over_tid = << >>
    /\ total_nedbetalt = << >> /\ gjenstaaende_liste = << >> /\ aar_i = 0

BelastHvile ==
    /\ boligutgifter = 0 /\ nettoinntekt = 0 /\ skattefradrag_mnd = 0
    /\ belastningsgrad = Ingen /\ effektiv_belastning = Ingen

PrognoseHvile ==
    /\ basis_rente = QInt(0) /\ prognose_type = "norges_bank"
    /\ prognose_aar = << >> /\ prognose_renter = << >>

IngenKall == [funksjon |-> "ingen"]

CacheHvile ==
    /\ cache = [terminbelop |-> {}, plan |-> {}, prognose |-> {}]
    /\ kall = IngenKall
    /\ kall_nr = 0

LagringHvile == quick_saves = << >> /\ klokke = 0 /\ save_name = "" /\ knapp = "ingen"

SideHvile == CacheHvile /\ LagringHvile

TilleggHvile ==
    /\ scenario_resultater = << >> /\ EierHvile /\ BelastHvile /\ PrognoseHvile
    /\ utfall = "ingen"

\* ------------------------------------------ beregn_terminbelop (exact)
maanedlig_rente_av(r) == Q(r, 100 * MndPerAar)

\* straight-line payment applied whatever the rate
TerminbelopUtenRente(l, r, tid) == Q(l, tid * MndPerAar)

TerminbelopEksakt(l, r, tid) ==
    IF r = 0
    THEN Q(l, tid * MndPerAar)
    ELSE LET mr == maanedlig_rente_av(r)
             antall_terminer == tid * MndPerAar
             p == QPow(QAdd(QInt(1), mr), antall_terminer)
         IN  QDiv(QMul(QInt(l), QMul(mr, p)), QSub(p, QInt(1)))

\* the float returned by beregn_terminbelop: exact value and rounding direction
beregn_terminbelop(l, r, tid, rnd) == Fl(TerminbelopEksakt(l, r, tid), QInt(rnd))

\* rounding directions the quotient can take
Avrundinger(l, r, tid) ==
    IF Dyadic(TerminbelopEksakt(l, r, tid)) THEN {0} ELSE {-1, 1}

\* rates (percent per year) whose compound factor (1 + r/1200)^n stays
\* within the integers of the checker
Renter(tid) == IF Abs(tid) * MndPerAar <= 12 THEN {0, 1200, 2400} ELSE {0}

\* --------------------------------------------- beregn_amortiseringsplan
\* the recorded balance is not floored at zero
StegUtenGulv(m, t, g, mr) ==
    LET renter == FlScale(g, mr)
        avdrag == FlSub(t, renter)
        ny == FlSub(g, avdrag)
    IN  [ rad |-> [ Aar |-> (m \div MndPerAar) + 1,
                    Maaned |-> (m % MndPerAar) + 1,
                    Terminbelop |-> t,
                    Renter |-> renter,
                    Avdrag |-> avdrag,
                    Gjenstaaende |-> ny,
                    Skattefradrag |-> FlScale(renter, SKATTESATS_RENTEFRADRAG),
                    NettoKostnad |->
                        FlSub(t, FlScale(renter, SKATTESATS_RENTEFRADRAG)) ],
          gjenstaaende |-> ny ]

\* interest taken on the balance left after the payment instead of before it
StegRenterEtterBetaling(m, t, g, mr) ==
    LET renter == FlScale(FlSub(g, t), mr)
        avdrag == FlSub(t, renter)
        ny == FlSub(g, avdrag)
    IN  [ rad |-> [ Aar |-> (m \div MndPerAar) + 1,
                    Maaned |-> (m % MndPerAar) + 1,
                    Terminbelop |-> t,
                    Renter |-> renter,
                    Avdrag |-> avdrag,
                    Gjenstaaende |-> FlMax0(ny),
                    Skattefradrag |-> FlScale(renter, SKATTESATS_RENTEFRADRAG),
                    NettoKostnad |->
                        FlSub(t, FlScale(renter, SKATTESATS_RENTEFRADRAG)) ],
          gjenstaaende |-> ny ]

\* body of the for loop: the appended row and the updated running balance
Steg(m, t, g, mr) ==
    LET renter == FlScale(g, mr)
        avdrag == FlSub(t, renter)
        ny == FlSub(g, avdrag)
    IN  [ rad |-> [ Aar |-> (m \div MndPerAar) + 1,
                    Maaned |-> (m % MndPerAar) + 1,
                    Terminbelop |-> t,
                    Renter |-> renter,
                    Avdrag |-> avdrag,
                    Gjenstaaende |-> FlMax0(ny),
                    Skattefradrag |-> FlScale(renter, SKATTESATS_RENTEFRADRAG),
                    NettoKostnad |->
                        FlSub(t, FlScale(renter, SKATTESATS_RENTEFRADRAG)) ],
          gjenstaaende |-> ny ]

StandardAntall(arg, tid) == IF arg = Ingen THEN Min(StandardAar, tid) ELSE arg

InitPlan ==
    /\ modul = "plan"
    /\ SideHvile
    /\ laan \in 0 .. MaxLaan
    /\ nedbetalingstid_aar \in 1 .. MaxTid
    /\ rente \in Renter(nedbetalingstid_aar)
    /\ \E arg \in {Ingen} \cup (0 .. MaxTid + 1) :
          antall_aar = StandardAntall(arg, nedbetalingstid_aar)
    /\ avrunding \in Avrundinger(laan, rente, nedbetalingstid_aar)
    /\ terminbelop = beregn_terminbelop(laan, rente, nedbetalingstid_aar, avrunding)
    /\ gjenstaaende = FlInt(laan)
    /\ plan = << >>
    /\ mnd = 0
    /\ pc = "loop"
    /\ FordHvile
    /\ SalgHvile
    /\ OppgjorHvile
    /\ TilleggHvile

\* one iteration of the for loop
Iterasjon ==
    /\ modul \in {"plan", "salg"}
    /\ pc = "loop"
    /\ mnd < antall_aar * MndPerAar
    /\ ~ FlLe0(gjenstaaende)
    /\ LET s == Steg(mnd, terminbelop, gjenstaaende, maanedlig_rente_av(rente))
       IN  /\ plan' = Append(plan, s.rad)
           /\ gjenstaaende' = s.gjenstaaende
    /\ mnd' = mnd + 1
    /\ UNCHANGED << sidevars, modul, laan, rente, nedbetalingstid_aar, antall_aar, avrunding,
                    terminbelop, pc, fordvars, salgvars, oppgjorvars,
                    tilleggsvars >>

\* the loop is exhausted or left by break; the DataFrame is returned
Returner ==
    /\ modul \in {"plan", "salg"}
    /\ pc = "loop"
    /\ (mnd >= antall_aar * MndPerAar \/ FlLe0(gjenstaaende))
    /\ pc' = "ferdig"
    /\ UNCHANGED << sidevars, modul, planvars, fordvars, salgvars, oppgjorvars, tilleggsvars >>

NextPlan == Iterasjon \/ Returner

SpecPlan == InitPlan /\ [][NextPlan]_vars

\* ------------------------------------------------------ beregn_fordeling
FORDELINGSTYPER == {"50/50", "Proporsjonal etter inntekt", "Egendefinert", "Annet"}

\* values of the custom_split slider (0 .. 100)
CustomValg == {0, 5, 50, 95, 100}

\* zero incomes are split 50/50 instead of returning (0, 0)
beregn_fordeling_halvt_ved_null(total, ia, ib, type, custom) ==
    IF type = "50/50"
    THEN << QDiv(total, QInt(2)), QDiv(total, QInt(2)) >>
    ELSE IF type = "Proporsjonal etter inntekt"
    THEN IF ia + ib = 0
         THEN << QDiv(total, QInt(2)), QDiv(total, QInt(2)) >>
         ELSE LET andel_a == Q(ia, ia + ib)
              IN  << QMul(total, andel_a), QMul(total, QSub(QInt(1), andel_a)) >>
    ELSE IF type = "Egendefinert"
    THEN LET andel_a == Q(custom, 100)
         IN  << QMul(total, andel_a), QMul(total, QSub(QInt(1), andel_a)) >>
    ELSE << QDiv(total, QInt(2)), QDiv(total, QInt(2)) >>

\* the pair returned by beregn_fordeling (total an amount, incomes integers)
beregn_fordeling(total, ia, ib, type, custom) ==
    IF type = "50/50"
    THEN << QDiv(total, QInt(2)), QDiv(total, QInt(2)) >>
    ELSE IF type = "Proporsjonal etter inntekt"
    THEN IF ia + ib = 0
         THEN << QInt(0), QInt(0) >>
         ELSE LET andel_a == Q(ia, ia + ib)
              IN  << QMul(total, andel_a), QMul(total, QSub(QInt(1), andel_a)) >>
    ELSE IF type = "Egendefinert"
    THEN LET andel_a == Q(custom, 100)
         IN  << QMul(total, andel_a), QMul(total, QSub(QInt(1), andel_a)) >>
    ELSE << QDiv(total, QInt(2)), QDiv(total, QInt(2)) >>

InitFordeling ==
    /\ modul = "fordeling"
    /\ SideHvile
    /\ pc = "kall"
    /\ \E t \in 0 .. MaxKostnad : total_kostnad = QInt(t)
    /\ inntekt_a \in 0 .. MaxInntekt
    /\ inntekt_b \in 0 .. MaxInntekt
    /\ fordeling_type \in FORDELINGSTYPER
    /\ custom_split \in (IF fordeling_type = "Egendefinert" THEN CustomValg ELSE {Ingen})
    /\ kostnad_a = Ingen
    /\ kostnad_b = Ingen
    /\ PlanHvile
    /\ SalgHvile
    /\ OppgjorHvile
    /\ TilleggHvile

\* kostnad_a, kostnad_b = beregn_fordeling(...)
Fordel ==
    /\ modul = "fordeling"
    /\ pc = "kall"
    /\ LET r == beregn_fordeling(total_kostnad, inntekt_a, inntekt_b,
                                  fordeling_type, custom_split)
       IN  kostnad_a' = r[1] /\ kostnad_b' = r[2]
    /\ pc' = "ferdig"
    /\ UNCHANGED << sidevars, modul, planvars, salgvars, oppgjorvars, tilleggsvars,
                    total_kostnad, inntekt_a, inntekt_b, fordeling_type,
                    custom_split >>

NextFordeling == Fordel

SpecFordeling == InitFordeling /\ [][NextFordeling]_vars

\* C1: the two shares returned by beregn_fordeling sum to the amount.
C1_AndelerSummerer ==
    (modul = "fordeling" /\ pc = "ferdig") =>
        QAdd(kostnad_a, kostnad_b) = total_kostnad

\* C13: under "Proporsjonal etter inntekt" the shares are
\* amount*incomeA/(incomeA+incomeB) and amount*incomeB/(incomeA+incomeB) when
\* the incomes do not sum to 0, and (0, 0) is returned when they do.
C13_Proporsjonal ==
    (modul = "fordeling" /\ pc = "ferdig"
        /\ fordeling_type = "Proporsjonal etter inntekt") =>
        IF inntekt_a + inntekt_b # 0
        THEN /\ kostnad_a =
                   QDiv(QMul(total_kostnad, QInt(inntekt_a)), QInt(inntekt_a + inntekt_b))
             /\ kostnad_b =
                   QDiv(QMul(total_kostnad, QInt(inntekt_b)), QInt(inntekt_a + inntekt_b))
        ELSE kostnad_a = QInt(0) /\ kostnad_b = QInt(0)

C13_Witness ==
    /\ modul = "fordeling" /\ pc = "ferdig"
    /\ fordeling_type = "Proporsjonal etter inntekt"
    /\ inntekt_a + inntekt_b = 0 /\ total_kostnad # QInt(0)
    /\ kostnad_a = QInt(0) /\ kostnad_b = QInt(0)

\* ------------------------------------------- properties of the schedule
\* amortiseringsplan['Avdrag'].sum() over rows lo .. hi
RECURSIVE SumAvdrag(_, _, _)
SumAvdrag(p, lo, hi) ==
    IF lo > hi THEN FlInt(0)
    ELSE IF lo = hi THEN p[lo].Avdrag
    ELSE LET mid == (lo + hi) \div 2
         IN  FlAdd(SumAvdrag(p, lo, mid), SumAvdrag(p, mid + 1, hi))

\* the balance a period starts from
Foer(k) == IF k = 1 THEN FlInt(laan) ELSE plan[k - 1].Gjenstaaende

FullTid == modul = "plan" /\ pc = "ferdig" /\ laan > 0 /\ antall_aar = nedbetalingstid_aar

\* C3: run to the full term (antall_aar = nedbetalingstid_aar) with laan > 0,
\* the Avdrag column sums to laan and the last recorded balance is 0, both
\* within floating tolerance (equality of the exact values).
C3_AvdragSumLaan ==
    FullTid =>
        /\ Len(plan) > 0
        /\ SumAvdrag(plan, 1, Len(plan)).v = QInt(laan)
        /\ plan[Len(plan)].Gjenstaaende.v = QInt(0)

C3_Witness == FullTid /\ rente > 0 /\ Len(plan) = nedbetalingstid_aar * MndPerAar

\* C4: in every row Renter is the balance before the period times the
\* monthly rate, and Renter + Avdrag is the payment of beregn_terminbelop.
C4_RenterAvGjenstaaende ==
    modul = "plan" =>
        \A k \in 1 .. Len(plan) :
            /\ plan[k].Renter = FlScale(Foer(k), maanedlig_rente_av(rente))
            /\ FlAdd(plan[k].Renter, plan[k].Avdrag) = plan[k].Terminbelop
            /\ plan[k].Terminbelop =
                   beregn_terminbelop(laan, rente, nedbetalingstid_aar, avrunding)

C4_Witness == modul = "plan" /\ rente > 0 /\ Len(plan) >= 3

\* C5: every recorded balance is max(0, balance before - Avdrag), is never
\* negative and, for laan > 0, never exceeds the balance before the period.
C5_GjenstaaendeGulv ==
    modul = "plan" =>
        \A k \in 1 .. Len(plan) :
            /\ plan[k].Gjenstaaende = FlMax0(FlSub(Foer(k), plan[k].Avdrag))
            /\ FlLe(FlInt(0), plan[k].Gjenstaaende)
            /\ laan > 0 => FlLe(plan[k].Gjenstaaende, Foer(k))

\* the floor acts: the running balance went below zero and 0 was recorded
C5_Witness ==
    /\ modul = "plan" /\ Len(plan) > 0
    /\ gjenstaaende.v[1] < 0 \/ (gjenstaaende.v[1] = 0 /\ gjenstaaende.e[1] < 0)
    /\ plan[Len(plan)].Gjenstaaende = FlInt(0)

\* C6: the returned schedule has at most antall_aar*12 rows, every row was
\* emitted from a positive balance (none for laan = 0), and with
\* antall_aar >= nedbetalingstid_aar and laan > 0 it has exactly
\* nedbetalingstid_aar*12 rows.
C6_AntallRader ==
    (modul = "plan" /\ pc = "ferdig") =>
        /\ Len(plan) <= antall_aar * MndPerAar
        /\ \A k \in 1 .. Len(plan) : ~ FlLe0(Foer(k))
        /\ laan = 0 => plan = << >>
        /\ (laan > 0 /\ antall_aar >= nedbetalingstid_aar) =>
               Len(plan) = nedbetalingstid_aar * MndPerAar

\* ------------------------------------- tab7: settlement policies (models)
MaxEK == 2
MaxNedbetalt == 2
MaxNetto == 9

FORDELINGSMODELLER == {"Modell 1", "Modell 2", "Modell 3", "Modell 4"}

Halv == Q(1, 2)

\* x / y if y > 0 else 0.5
AndelEller50(x, y) == IF QGt(y, QInt(0)) THEN QDiv(x, y) ELSE Halv

\* netto * (x / ti) if ti > 0 else netto * 0.5
ProporsjonalEller50(netto, x, ti) ==
    IF QGt(ti, QInt(0)) THEN QMul(netto, QDiv(x, ti)) ELSE QMul(netto, Halv)

\* the fallback share of party B is 0 instead of 0.5
Modell1UtenReserve(netto, ti_a, ti_b, ti) ==
    << QMul(netto, AndelEller50(ti_a, ti)),
       QMul(netto, IF QGt(ti, QInt(0)) THEN QDiv(ti_b, ti) ELSE QInt(0)) >>

\* Modell 1: proportional to total investment
Modell1(netto, ti_a, ti_b, ti) ==
    LET andel_a == AndelEller50(ti_a, ti)
        andel_b == AndelEller50(ti_b, ti)
    IN  << QMul(netto, andel_a), QMul(netto, andel_b) >>

\* the gain is split by the investment ratio instead of the equity ratio
Modell2EtterInvestering(netto, ti_a, ti_b, ti, ek_a, ek_b, ek) ==
    IF QGt(netto, ti)
    THEN LET gevinst == QSub(netto, ti)
         IN  << QAdd(ti_a, QMul(gevinst, AndelEller50(ti_a, ti))),
                QAdd(ti_b, QMul(gevinst, AndelEller50(ti_b, ti))) >>
    ELSE << ProporsjonalEller50(netto, ti_a, ti),
            ProporsjonalEller50(netto, ti_b, ti) >>

\* Modell 2: investment first, gain proportional to equity
Modell2(netto, ti_a, ti_b, ti, ek_a, ek_b, ek) ==
    LET ek_andel_a == AndelEller50(ek_a, ek)
        ek_andel_b == AndelEller50(ek_b, ek)
    IN  IF QGt(netto, ti)
        THEN LET gevinst == QSub(netto, ti)
             IN  << QAdd(ti_a, QMul(gevinst, ek_andel_a)),
                    QAdd(ti_b, QMul(gevinst, ek_andel_b)) >>
        ELSE << ProporsjonalEller50(netto, ti_a, ti),
                ProporsjonalEller50(netto, ti_b, ti) >>

\* the gain is split by the investment ratio instead of 50/50
Modell3EtterInvestering(netto, ti_a, ti_b, ti) ==
    IF QGt(netto, ti)
    THEN LET gevinst == QSub(netto, ti)
         IN  << QAdd(ti_a, QMul(gevinst, AndelEller50(ti_a, ti))),
                QAdd(ti_b, QMul(gevinst, AndelEller50(ti_b, ti))) >>
    ELSE << ProporsjonalEller50(netto, ti_a, ti),
            ProporsjonalEller50(netto, ti_b, ti) >>

\* party B gets its investment back but no part of the gain
Modell3UtenGevinstB(netto, ti_a, ti_b, ti) ==
    IF QGt(netto, ti)
    THEN << QAdd(ti_a, QMul(QSub(netto, ti), Halv)), ti_b >>
    ELSE << ProporsjonalEller50(netto, ti_a, ti),
            ProporsjonalEller50(netto, ti_b, ti) >>

\* Modell 3: investment first, gain split 50/50
Modell3(netto, ti_a, ti_b, ti) ==
    IF QGt(netto, ti)
    THEN LET gevinst == QSub(netto, ti)
         IN  << QAdd(ti_a, QMul(gevinst, Halv)), QAdd(ti_b, QMul(gevinst, Halv)) >>
    ELSE << ProporsjonalEller50(netto, ti_a, ti),
            ProporsjonalEller50(netto, ti_b, ti) >>

\* Hybrid that splits a gain equally
Modell4GevinstLikt(netto, ti_a, ti_b, ti, ek_a, ek_b, ek, vkr) ==
    IF QGt(vkr, QInt(0))
    THEN IF QGt(netto, ti)
         THEN LET gevinst == QSub(netto, ti)
              IN  << QAdd(ti_a, QMul(gevinst, Halv)), QAdd(ti_b, QMul(gevinst, Halv)) >>
         ELSE << ProporsjonalEller50(netto, ti_a, ti),
                 ProporsjonalEller50(netto, ti_b, ti) >>
    ELSE LET andel_a == AndelEller50(ti_a, ti)
             andel_b == AndelEller50(ti_b, ti)
         IN  << QMul(netto, andel_a), QMul(netto, andel_b) >>

\* Modell 4 (Hybrid): keyed on verdiendring_kr
Modell4(netto, ti_a, ti_b, ti, ek_a, ek_b, ek, vkr) ==
    IF QGt(vkr, QInt(0))
    THEN LET ek_andel_a == AndelEller50(ek_a, ek)
             ek_andel_b == AndelEller50(ek_b, ek)
         IN  IF QGt(netto, ti)
             THEN LET gevinst == QSub(netto, ti)
                  IN  << QAdd(ti_a, QMul(gevinst, ek_andel_a)),
                         QAdd(ti_b, QMul(gevinst, ek_andel_b)) >>
             ELSE << ProporsjonalEller50(netto, ti_a, ti),
                     ProporsjonalEller50(netto, ti_b, ti) >>
    ELSE LET andel_a == AndelEller50(ti_a, ti)
             andel_b == AndelEller50(ti_b, ti)
         IN  << QMul(netto, andel_a), QMul(netto, andel_b) >>

\* the if / elif chain on fordelingsmodell
Utbetaling(modell, netto, ti_a, ti_b, ti, ek_a, ek_b, ek, vkr) ==
    IF modell = "Modell 1" THEN Modell1(netto, ti_a, ti_b, ti)
    ELSE IF modell = "Modell 2" THEN Modell2(netto, ti_a, ti_b, ti, ek_a, ek_b, ek)
    ELSE IF modell = "Modell 3" THEN Modell3(netto, ti_a, ti_b, ti)
    ELSE Modell4(netto, ti_a, ti_b, ti, ek_a, ek_b, ek, vkr)

\* total_investert_a = egenkapital_a + nedbetalt_a
TotalInvestert(ek, nedbetalt) == QAdd(ek, nedbetalt)

\* The models as a function of the values in scope when they run: every
\* equity split, principal paid, net proceeds and sign of the value change.
InitModell ==
    /\ modul = "modell"
    /\ SideHvile
    /\ pc = "modell"
    /\ \E ea \in 0 .. MaxEK, eb \in 0 .. MaxEK :
          /\ egenkapital_a = QInt(ea)
          /\ egenkapital_b = QInt(eb)
          /\ egenkapital = QInt(ea + eb)
    /\ \E na \in 0 .. MaxNedbetalt, nb \in 0 .. MaxNedbetalt :
          /\ nedbetalt_a = QInt(na)
          /\ nedbetalt_b = QInt(nb)
    /\ total_investert_a = TotalInvestert(egenkapital_a, nedbetalt_a)
    /\ total_investert_b = TotalInvestert(egenkapital_b, nedbetalt_b)
    /\ total_investert = QAdd(total_investert_a, total_investert_b)
    /\ \E n \in -MaxNetto .. MaxNetto : netto_salgssum = QInt(n)
    /\ \E v \in {-1, 0, 1} : verdiendring_kr = QInt(v)
    /\ fordelingsmodell \in FORDELINGSMODELLER
    /\ utbetaling_a = Ingen
    /\ utbetaling_b = Ingen
    /\ PlanHvile
    /\ FordHvile
    /\ SalgHvile
    /\ TilleggHvile

\* lines 2264-2342: utbetaling_a, utbetaling_b under the chosen model
BeregnUtbetaling ==
    /\ modul \in {"modell", "salg"}
    /\ pc = "modell"
    /\ LET u == Utbetaling(fordelingsmodell, netto_salgssum, total_investert_a,
                           total_investert_b, total_investert, egenkapital_a,
                           egenkapital_b, egenkapital, verdiendring_kr)
       IN  utbetaling_a' = u[1] /\ utbetaling_b' = u[2]
    /\ pc' = IF modul = "salg" THEN "scenario" ELSE "ferdig"
    /\ UNCHANGED << sidevars, modul, planvars, fordvars, salgvars, tilleggsvars,
                    netto_salgssum, verdiendring_kr,
                    egenkapital_a, egenkapital_b, egenkapital, nedbetalt_a,
                    nedbetalt_b, total_investert_a, total_investert_b,
                    total_investert, fordelingsmodell >>

NextModell == BeregnUtbetaling

SpecModell == InitModell /\ [][NextModell]_vars

Utbetalt == modul = "modell" /\ pc = "ferdig"

\* C2: under each of the four models the two payouts sum to the net proceeds
\* (negative proceeds and zero total investment included).
C2_UtbetalingSummerer ==
    Utbetalt => QAdd(utbetaling_a, utbetaling_b) = netto_salgssum

C2_Witness ==
    /\ Utbetalt /\ fordelingsmodell = "Modell 4"
    /\ QLt(netto_salgssum, QInt(0))
    /\ QGt(total_investert, QInt(0))
    /\ utbetaling_a # utbetaling_b

C9_Modell2 ==
    (Utbetalt /\ fordelingsmodell = "Modell 2") =>
        IF QGt(netto_salgssum, total_investert)
        THEN /\ QLe(total_investert_a, utbetaling_a)
             /\ QLe(total_investert_b, utbetaling_b)
             /\ QGt(egenkapital, QInt(0)) =>
                   /\ utbetaling_a =
                         QAdd(total_investert_a,
                              QDiv(QMul(QSub(netto_salgssum, total_investert),
                                        egenkapital_a), egenkapital))
                   /\ utbetaling_b =
                         QAdd(total_investert_b,
                              QDiv(QMul(QSub(netto_salgssum, total_investert),
                                        egenkapital_b), egenkapital))
        ELSE << utbetaling_a, utbetaling_b >> =
                Modell1(netto_salgssum, total_investert_a, total_investert_b,
                        total_investert)

C9_Witness ==
    /\ Utbetalt /\ fordelingsmodell = "Modell 2"
    /\ QGt(netto_salgssum, total_investert)
    /\ QGt(egenkapital_a, egenkapital_b) /\ QGt(nedbetalt_b, nedbetalt_a)

\* C10: Modell 3 with netto > total invested pays own investment plus half the
\* gain; with netto <= total invested it pays what Modell 1 pays.
C10_Modell3 ==
    (Utbetalt /\ fordelingsmodell = "Modell 3") =>
        IF QGt(netto_salgssum, total_investert)
        THEN /\ utbetaling_a =
                   QAdd(total_investert_a,
                        QDiv(QSub(netto_salgssum, total_investert), QInt(2)))
             /\ utbetaling_b =
                   QAdd(total_investert_b,
                        QDiv(QSub(netto_salgssum, total_investert), QInt(2)))
        ELSE << utbetaling_a, utbetaling_b >> =
                Modell1(netto_salgssum, total_investert_a, total_investert_b,
                        total_investert)

C10_Witness ==
    /\ Utbetalt /\ fordelingsmodell = "Modell 3"
    /\ QGt(netto_salgssum, total_investert)
    /\ total_investert_a # total_investert_b

\* ------------------------------------------------ tab7: sale of the home
\* values of the number inputs "Forventet verdiendring (%)" (-30 .. 100)
\* and "Salgskostnader (%)" (0 .. 10)
VerdiendringValg == {QInt(-30), QInt(0), Q(333, 10), QInt(100)}
SalgskostnadValg == {QInt(0), Q(5, 2), QInt(10)}

\* tab1 defines egenkapital_a and egenkapital_b, which tab5 and tab7 read,
\* only when the equity is at least 15 % of the price
EgenkapitalValg(pris) == {e \in 0 .. pris : e * 100 >= 15 * pris}

\* the net proceeds are floored at zero
NettoMedGulv(pris, kostnader, gjeld) ==
    LET n == QSub(QSub(pris, kostnader), gjeld)
    IN  IF QLt(n, QInt(0)) THEN QInt(0) ELSE n

\* netto_salgssum = salgspris - salgskostnader - gjenstaaende_laan
Netto(pris, kostnader, gjeld) == QSub(QSub(pris, kostnader), gjeld)

\* the script reaches tab7 and calls
\* beregn_amortiseringsplan(laanebelop, rente, nedbetalingstid, salgsaar):
\* laan, nedbetalingstid_aar and antall_aar hold the arguments
InitSalg ==
    /\ modul = "salg"
    /\ SideHvile
    /\ pc = "loop"
    /\ boligpris \in 1 .. MaxPris
    /\ \E e \in EgenkapitalValg(boligpris) :
          /\ egenkapital = QInt(e)
          /\ laan = boligpris - e
    /\ nedbetalingstid_aar \in 1 .. MaxTid
    /\ rente \in Renter(nedbetalingstid_aar)
    /\ antall_aar \in 1 .. nedbetalingstid_aar
    /\ avrunding \in Avrundinger(laan, rente, nedbetalingstid_aar)
    /\ terminbelop = beregn_terminbelop(laan, rente, nedbetalingstid_aar, avrunding)
    /\ gjenstaaende = FlInt(laan)
    /\ plan = << >>
    /\ mnd = 0
    /\ verdiendring_prosent = QInt(0) /\ salgskostnader_prosent = QInt(0)
    /\ total_avdrag = QInt(0) /\ gjenstaaende_laan = QInt(0)
    /\ salgspris = QInt(0) /\ salgskostnader = QInt(0)
    /\ netto_salgssum = QInt(0) /\ verdiendring_kr = QInt(0)
    /\ egenkapital_a = QInt(0) /\ egenkapital_b = QInt(0)
    /\ nedbetalt_a = QInt(0) /\ nedbetalt_b = QInt(0)
    /\ total_investert_a = QInt(0) /\ total_investert_b = QInt(0)
    /\ total_investert = QInt(0) /\ fordelingsmodell = "Modell 1"
    /\ utbetaling_a = Ingen /\ utbetaling_b = Ingen
    /\ FordHvile
    /\ TilleggHvile

\* the sum leaves out the last row of the schedule
TotalAvdragUtenSiste(p) == SumAvdrag(p, 1, Len(p) - 1).v

\* line 2056: amortiseringsplan['Avdrag'].sum()
TotalAvdrag(p) == SumAvdrag(p, 1, Len(p)).v

\* lines 2049-2059 and 2166-2170: principal paid and outstanding loan
Nedbetalingsanalyse ==
    /\ modul = "salg"
    /\ pc = "ferdig"
    /\ total_avdrag' =
          IF plan # << >>
          THEN TotalAvdrag(plan)
          ELSE QMul(Q(laan, nedbetalingstid_aar), QInt(antall_aar))
    /\ gjenstaaende_laan' = QSub(QInt(laan), total_avdrag')
    /\ pc' = "salgsoppgjor"
    /\ UNCHANGED << sidevars, modul, planvars, fordvars, oppgjorvars, tilleggsvars, boligpris,
                    verdiendring_prosent, salgskostnader_prosent, salgspris,
                    salgskostnader >>

\* lines 2177-2182: sale price, selling costs and net proceeds
Salgsoppgjor ==
    /\ modul = "salg"
    /\ pc = "salgsoppgjor"
    /\ verdiendring_prosent' \in VerdiendringValg
    /\ salgskostnader_prosent' \in SalgskostnadValg
    /\ salgspris' = QMul(QInt(boligpris),
                         QAdd(QInt(1), QDiv(verdiendring_prosent', QInt(100))))
    /\ verdiendring_kr' = QSub(salgspris', QInt(boligpris))
    /\ salgskostnader' = QMul(salgspris', QDiv(salgskostnader_prosent', QInt(100)))
    /\ netto_salgssum' = Netto(salgspris', salgskostnader', gjenstaaende_laan)
    /\ pc' = "eierandel"
    /\ UNCHANGED << sidevars, modul, planvars, fordvars, tilleggsvars, boligpris, total_avdrag,
                    gjenstaaende_laan, egenkapital_a, egenkapital_b, egenkapital,
                    nedbetalt_a, nedbetalt_b, total_investert_a, total_investert_b,
                    total_investert, fordelingsmodell, utbetaling_a, utbetaling_b >>

\* the options of the radio "Velg hvordan kostnadene skal fordeles" of tab2
FordelingRadio == {"50/50", "Proporsjonal etter inntekt", "Egendefinert"}

\* the share of the principal that is credited to party A (tab7 lines
\* 2209-2219, and the same chain in tab5 lines 1150-1155);
\* "custom_split / 100 if custom_split else 0.5" takes 0.5 for None and for 0
AvdragAndelA(type, ka, kb, custom) ==
    IF type = "50/50" THEN Halv
    ELSE IF type = "Proporsjonal etter inntekt"
    THEN IF QGt(QAdd(ka, kb), QInt(0)) THEN QDiv(ka, QAdd(ka, kb)) ELSE Halv
    ELSE IF custom = Ingen \/ custom = 0 THEN Halv ELSE Q(custom, 100)

\* lines 2208-2224: principal paid and total investment of each party.  The
\* values of tab1 (split of the equity, lines 307-326) and of tab2 (allocation
\* policy, incomes, kostnad_a and kostnad_b, lines 391-466, with
\* felleskostnader 0) are drawn here, where tab7 first reads them; the
\* incomes only matter under the income-proportional policy.
Eierandel ==
    /\ modul = "salg"
    /\ pc = "eierandel"
    /\ \E a \in {Ingen} \cup (0 .. egenkapital[1]) :
          egenkapital_a' = IF a = Ingen THEN QDiv(egenkapital, QInt(2)) ELSE QInt(a)
    /\ egenkapital_b' = QSub(egenkapital, egenkapital_a')
    /\ fordeling_type' \in FordelingRadio
    /\ custom_split' \in (IF fordeling_type' = "Egendefinert" THEN CustomValg ELSE {Ingen})
    /\ inntekt_a' \in (IF fordeling_type' = "Proporsjonal etter inntekt"
                        THEN 0 .. MaxInntekt ELSE {0})
    /\ inntekt_b' \in (IF fordeling_type' = "Proporsjonal etter inntekt"
                        THEN 0 .. MaxInntekt ELSE {0})
    /\ total_kostnad' = terminbelop.v
    /\ LET r == beregn_fordeling(total_kostnad', inntekt_a', inntekt_b',
                                  fordeling_type', custom_split')
       IN  kostnad_a' = r[1] /\ kostnad_b' = r[2]
    /\ LET andel_a == AvdragAndelA(fordeling_type', kostnad_a', kostnad_b', custom_split')
       IN  /\ nedbetalt_a' = QMul(total_avdrag, andel_a)
           /\ nedbetalt_b' = QMul(total_avdrag, QSub(QInt(1), andel_a))
    /\ total_investert_a' = TotalInvestert(egenkapital_a', nedbetalt_a')
    /\ total_investert_b' = TotalInvestert(egenkapital_b', nedbetalt_b')
    /\ total_investert' = QAdd(total_investert_a', total_investert_b')
    /\ pc' = "velg"
    /\ UNCHANGED << sidevars, modul, planvars, salgvars, tilleggsvars, netto_salgssum,
                    verdiendring_kr, egenkapital, fordelingsmodell, utbetaling_a,
                    utbetaling_b >>

\* lines 2253-2261: the radio "Velg hvordan gevinsten skal fordeles"
VelgModell ==
    /\ modul = "salg"
    /\ pc = "velg"
    /\ fordelingsmodell' \in FORDELINGSMODELLER
    /\ pc' = "modell"
    /\ UNCHANGED << sidevars, modul, planvars, fordvars, salgvars, tilleggsvars, netto_salgssum,
                    verdiendring_kr, egenkapital_a, egenkapital_b, egenkapital,
                    nedbetalt_a, nedbetalt_b, total_investert_a, total_investert_b,
                    total_investert, utbetaling_a, utbetaling_b >>

\* the appreciation percentages of the scenario table
SCENARIOS == << QInt(-20), QInt(-10), QInt(0), QInt(15), Q(333, 10), QInt(50) >>

\* lines 2535-2536: the conditions under which a Hybrid row splits the gain
\* by the equity ratio
HybridGevinstgren(netto, ti, endring_prosent) ==
    QGt(endring_prosent, QInt(0)) /\ QGt(netto, ti)

\* lines 2514-2546: scenario_a, scenario_b under the chosen model
ScenarioUtbetaling(modell, netto, ti_a, ti_b, ti, ek_a, ek, endring_prosent) ==
    LET proporsjonal == << ProporsjonalEller50(netto, ti_a, ti),
                           ProporsjonalEller50(netto, ti_b, ti) >>
        scenario_gevinst == QSub(netto, ti)
        ek_andel_a == AndelEller50(ek_a, ek)
        etter_ek == << QAdd(ti_a, QMul(scenario_gevinst, ek_andel_a)),
                       QAdd(ti_b, QMul(scenario_gevinst,
                                       QSub(QInt(1), ek_andel_a))) >>
    IN  IF modell = "Modell 1" THEN proporsjonal
        ELSE IF modell = "Modell 2"
        THEN IF QGt(netto, ti) THEN etter_ek ELSE proporsjonal
        ELSE IF modell = "Modell 3"
        THEN IF QGt(netto, ti)
             THEN << QAdd(ti_a, QMul(scenario_gevinst, Halv)),
                     QAdd(ti_b, QMul(scenario_gevinst, Halv)) >>
             ELSE proporsjonal
        ELSE IF HybridGevinstgren(netto, ti, endring_prosent) THEN etter_ek
        ELSE proporsjonal

\* line 2510
ScenarioSalgspris(endring_prosent) ==
    QMul(QInt(boligpris), QAdd(QInt(1), QDiv(endring_prosent, QInt(100))))

\* line 2511: the selling costs are the variable salgskostnader of line 2179
ScenarioNetto(endring_prosent) ==
    QSub(QSub(ScenarioSalgspris(endring_prosent), salgskostnader), gjenstaaende_laan)

\* lines 2510-2554: one row of scenario_resultater
ScenarioRad(endring_prosent) ==
    LET scenario_salgspris == ScenarioSalgspris(endring_prosent)
        scenario_netto == ScenarioNetto(endring_prosent)
        u == ScenarioUtbetaling(fordelingsmodell, scenario_netto, total_investert_a,
                                total_investert_b, total_investert, egenkapital_a,
                                egenkapital, endring_prosent)
    IN  [ Verdiendring |-> endring_prosent,
          Salgspris |-> scenario_salgspris,
          GevinstA |-> QSub(u[1], total_investert_a),
          GevinstB |-> QSub(u[2], total_investert_b) ]

\* lines 2507-2556: the for loop over scenarios fills scenario_resultater
Scenarioanalyse ==
    /\ modul = "salg"
    /\ pc = "scenario"
    /\ scenario_resultater' = [k \in 1 .. Len(SCENARIOS) |-> ScenarioRad(SCENARIOS[k])]
    /\ pc' = "slutt"
    /\ UNCHANGED << sidevars, modul, planvars, fordvars, salgvars, oppgjorvars, eiervars,
                    belastvars, prognosevars, utfall >>

NextSalg == Iterasjon \/ Returner \/ Nedbetalingsanalyse \/ Salgsoppgjor

\* tab7 to its end.  The settlement is explored for a selection of the sales:
\* the highest price, the least equity tab1 accepts or no loan at all, the
\* shortest and the longest term, a sale after one year or at the end.
InitOppgjor ==
    /\ InitSalg
    /\ boligpris = MaxPris
    /\ laan = 0 \/ \A e \in EgenkapitalValg(boligpris) : egenkapital[1] <= e
    /\ nedbetalingstid_aar \in {1, MaxTid}
    /\ antall_aar \in {1, nedbetalingstid_aar}

NextOppgjor ==
    \/ NextSalg
    \/ Eierandel
    \/ VelgModell
    \/ BeregnUtbetaling
    \/ Scenarioanalyse

SpecOppgjor == InitOppgjor /\ [][NextOppgjor]_vars

\* the sale flow up to the principal credited to each party (line 2224), for
\* every term and every year of sale, on the sales with the highest price
\* and the least accepted equity or no loan
InitNedbetalt ==
    /\ InitSalg
    /\ boligpris = MaxPris
    /\ laan = 0 \/ \A e \in EgenkapitalValg(boligpris) : egenkapital[1] <= e

NextNedbetalt == NextSalg \/ Eierandel

SpecNedbetalt == InitNedbetalt /\ [][NextNedbetalt]_vars

SpecSalg == InitSalg /\ [][NextSalg]_vars

Oppgjort == modul = "salg" /\ pc = "eierandel"

\* C7: the net proceeds are salePrice - salePrice*costPct/100 - outstanding
\* balance with salePrice = price*(1 + appreciationPct/100); they are not
\* clamped: negative whenever balance plus selling costs exceed the sale price.
C7_NettoSalgssum ==
    Oppgjort =>
        LET pris == QDiv(QMul(QInt(boligpris),
                              QAdd(QInt(100), verdiendring_prosent)), QInt(100))
        IN  /\ salgspris = pris
            /\ netto_salgssum =
                  QSub(QSub(pris, QDiv(QMul(pris, salgskostnader_prosent), QInt(100))),
                       gjenstaaende_laan)
            /\ QGt(QAdd(gjenstaaende_laan, salgskostnader), salgspris) =>
                  QLt(netto_salgssum, QInt(0))

C7_Witness ==
    /\ Oppgjort
    /\ QGt(QAdd(gjenstaaende_laan, salgskostnader), salgspris)
    /\ QLt(netto_salgssum, QInt(0))

\* ------------------------------------- tab7: Hybrid and the scenario table
\* net proceeds of a sale at the given appreciation, selling costs taken as
\* salgskostnader_prosent of that sale price
NettoVedEndring(endring_prosent) ==
    LET pris == QMul(QInt(boligpris), QAdd(QInt(1), QDiv(endring_prosent, QInt(100))))
    IN  QSub(QSub(pris, QMul(pris, QDiv(salgskostnader_prosent, QInt(100)))),
             gjenstaaende_laan)

\* the rule selected by the sign of netto - total invested alone
EtterFortegn(netto) ==
    IF QGt(netto, total_investert)
    THEN LET gevinst == QSub(netto, total_investert)
         IN  << QAdd(total_investert_a,
                     QMul(gevinst, AndelEller50(egenkapital_a, egenkapital))),
                QAdd(total_investert_b,
                     QMul(gevinst, AndelEller50(egenkapital_b, egenkapital))) >>
    ELSE << ProporsjonalEller50(netto, total_investert_a, total_investert),
            ProporsjonalEller50(netto, total_investert_b, total_investert) >>

UtbetaltSalg == modul = "salg" /\ pc \in {"scenario", "slutt"}

Tabell == modul = "salg" /\ pc = "slutt"

\* the settlement of the sale itself under Modell 4 follows the sign of
\* netto_salgssum - total_investert
HybridHovedoppgjor ==
    (UtbetaltSalg /\ fordelingsmodell = "Modell 4") =>
        << utbetaling_a, utbetaling_b >> = EtterFortegn(netto_salgssum)

\* C11: under Modell 4 the equity-ratio split of the gain is applied exactly
\* when net proceeds - total invested > 0 and the split proportional to the
\* investment exactly when it is <= 0, in the settlement of the sale and in
\* every row of the scenario table, whatever the appreciation.
C11_HybridFortegn ==
    /\ HybridHovedoppgjor
    /\ (Tabell /\ fordelingsmodell = "Modell 4") =>
           \A k \in 1 .. Len(SCENARIOS) :
               HybridGevinstgren(ScenarioNetto(SCENARIOS[k]), total_investert,
                                 SCENARIOS[k])
                   <=> QGt(NettoVedEndring(SCENARIOS[k]), total_investert)

\* the payouts of the selected policy on the given net proceeds
PolicyUtbetaling(netto) ==
    IF fordelingsmodell = "Modell 1"
    THEN Modell1(netto, total_investert_a, total_investert_b, total_investert)
    ELSE IF fordelingsmodell = "Modell 3"
    THEN Modell3(netto, total_investert_a, total_investert_b, total_investert)
    ELSE EtterFortegn(netto)

\* C12: every row of the scenario table has the sale price of its appreciation
\* percentage, net proceeds recomputed with selling costs of
\* salgskostnader_prosent of that sale price, and gains equal to the selected
\* policy's payouts on those net proceeds minus each party's total investment.
C12_ScenarioTabell ==
    Tabell =>
        /\ Len(scenario_resultater) = 6
        /\ \A k \in 1 .. Len(scenario_resultater) :
               LET u == PolicyUtbetaling(NettoVedEndring(SCENARIOS[k]))
               IN  /\ scenario_resultater[k].Verdiendring = SCENARIOS[k]
                   /\ scenario_resultater[k].Salgspris =
                          QMul(QInt(boligpris),
                               QAdd(QInt(1), QDiv(SCENARIOS[k], QInt(100))))
                   /\ scenario_resultater[k].GevinstA = QSub(u[1], total_investert_a)
                   /\ scenario_resultater[k].GevinstB = QSub(u[2], total_investert_b)

\* --------------------------------------- tab5: ownership share over time
\* tab1 assigns egenkapital_a and egenkapital_b only in the branch taken when
\* the equity is at least 15 % of the price (lines 297-326)
EgenkapitalFordelt(pris, ek) == QLe(QInt(15), QMul(QDiv(ek, QInt(pris)), QInt(100)))

QMin(a, b) == IF QLe(a, b) THEN a ELSE b

\* party B is credited the whole loan share
EierandelerHeleLaanetB(pris, ek_a, ek_b, l, tid, andel_a, k) ==
    LET initial_eierandel_a == QMul(QDiv(ek_a, QInt(pris)), QInt(100))
        initial_eierandel_b == QMul(QDiv(ek_b, QInt(pris)), QInt(100))
        total_laaneandel == QMul(Q(l, pris), QInt(100))
        aarlig_avdrag == QMul(Q(l, tid * MndPerAar), QInt(MndPerAar))
        laaneandel_a == QMul(total_laaneandel, andel_a)
        laaneandel_b == total_laaneandel
        total_nedbetalt_saa_langt == QMin(QMul(aarlig_avdrag, QInt(k)), QInt(l))
        current_loan == QSub(QInt(l), total_nedbetalt_saa_langt)
        prosent_nedbetalt ==
            IF l > 0 THEN QDiv(total_nedbetalt_saa_langt, QInt(l)) ELSE QInt(1)
    IN  IF k = 0
        THEN [ a |-> initial_eierandel_a, b |-> initial_eierandel_b,
               nedbetalt |-> QInt(0), gjenstaaende |-> QInt(l) ]
        ELSE [ a |-> QAdd(initial_eierandel_a, QMul(laaneandel_a, prosent_nedbetalt)),
               b |-> QAdd(initial_eierandel_b, QMul(laaneandel_b, prosent_nedbetalt)),
               nedbetalt |-> total_nedbetalt_saa_langt,
               gjenstaaende |-> current_loan ]

\* the earned share follows the part of the loan that is left, not the part paid
EierandelerEtterRest(pris, ek_a, ek_b, l, tid, andel_a, k) ==
    LET initial_eierandel_a == QMul(QDiv(ek_a, QInt(pris)), QInt(100))
        initial_eierandel_b == QMul(QDiv(ek_b, QInt(pris)), QInt(100))
        total_laaneandel == QMul(Q(l, pris), QInt(100))
        aarlig_avdrag == QMul(Q(l, tid * MndPerAar), QInt(MndPerAar))
        laaneandel_a == QMul(total_laaneandel, andel_a)
        laaneandel_b == QMul(total_laaneandel, QSub(QInt(1), andel_a))
        total_nedbetalt_saa_langt == QMin(QMul(aarlig_avdrag, QInt(k)), QInt(l))
        current_loan == QSub(QInt(l), total_nedbetalt_saa_langt)
        prosent_nedbetalt ==
            IF l > 0 THEN QDiv(current_loan, QInt(l)) ELSE QInt(1)
    IN  IF k = 0
        THEN [ a |-> initial_eierandel_a, b |-> initial_eierandel_b,
               nedbetalt |-> QInt(0), gjenstaaende |-> QInt(l) ]
        ELSE [ a |-> QAdd(initial_eierandel_a, QMul(laaneandel_a, prosent_nedbetalt)),
               b |-> QAdd(initial_eierandel_b, QMul(laaneandel_b, prosent_nedbetalt)),
               nedbetalt |-> total_nedbetalt_saa_langt,
               gjenstaaende |-> current_loan ]

\* the initial share is the share of the equity, not of the price
EierandelerAvEgenkapital(pris, ek_a, ek_b, l, tid, andel_a, k) ==
    LET ek == QAdd(ek_a, ek_b)
        initial_eierandel_a ==
            IF ek[1] > 0 THEN QMul(QDiv(ek_a, ek), QInt(100)) ELSE QInt(0)
        initial_eierandel_b ==
            IF ek[1] > 0 THEN QMul(QDiv(ek_b, ek), QInt(100)) ELSE QInt(0)
        total_laaneandel == QMul(Q(l, pris), QInt(100))
        aarlig_avdrag == QMul(Q(l, tid * MndPerAar), QInt(MndPerAar))
        laaneandel_a == QMul(total_laaneandel, andel_a)
        laaneandel_b == QMul(total_laaneandel, QSub(QInt(1), andel_a))
        total_nedbetalt_saa_langt == QMin(QMul(aarlig_avdrag, QInt(k)), QInt(l))
        current_loan == QSub(QInt(l), total_nedbetalt_saa_langt)
        prosent_nedbetalt ==
            IF l > 0 THEN QDiv(total_nedbetalt_saa_langt, QInt(l)) ELSE QInt(1)
    IN  IF k = 0
        THEN [ a |-> initial_eierandel_a, b |-> initial_eierandel_b,
               nedbetalt |-> QInt(0), gjenstaaende |-> QInt(l) ]
        ELSE [ a |-> QAdd(initial_eierandel_a, QMul(laaneandel_a, prosent_nedbetalt)),
               b |-> QAdd(initial_eierandel_b, QMul(laaneandel_b, prosent_nedbetalt)),
               nedbetalt |-> total_nedbetalt_saa_langt,
               gjenstaaende |-> current_loan ]

\* lines 1134-1194: what the loop appends for index k of years (k = 0 is the
\* year of purchase)
Eierandeler(pris, ek_a, ek_b, l, tid, andel_a, k) ==
    LET initial_eierandel_a == QMul(QDiv(ek_a, QInt(pris)), QInt(100))
        initial_eierandel_b == QMul(QDiv(ek_b, QInt(pris)), QInt(100))
        total_laaneandel == QMul(Q(l, pris), QInt(100))
        aarlig_avdrag == QMul(Q(l, tid * MndPerAar), QInt(MndPerAar))
        laaneandel_a == QMul(total_laaneandel, andel_a)
        laaneandel_b == QMul(total_laaneandel, QSub(QInt(1), andel_a))
        total_nedbetalt_saa_langt == QMin(QMul(aarlig_avdrag, QInt(k)), QInt(l))
        current_loan == QSub(QInt(l), total_nedbetalt_saa_langt)
        prosent_nedbetalt ==
            IF l > 0 THEN QDiv(total_nedbetalt_saa_langt, QInt(l)) ELSE QInt(1)
    IN  IF k = 0
        THEN [ a |-> initial_eierandel_a, b |-> initial_eierandel_b,
               nedbetalt |-> QInt(0), gjenstaaende |-> QInt(l) ]
        ELSE [ a |-> QAdd(initial_eierandel_a, QMul(laaneandel_a, prosent_nedbetalt)),
               b |-> QAdd(initial_eierandel_b, QMul(laaneandel_b, prosent_nedbetalt)),
               nedbetalt |-> total_nedbetalt_saa_langt,
               gjenstaaende |-> current_loan ]

\* the script reaches tab5 with the values of tab1 and tab2: price, equity
\* and its split (when tab1 defined it), term, allocation policy and
\* kostnad_a, kostnad_b = beregn_fordeling(terminbelop + felleskostnader, ...)
\* (rente 0 and felleskostnader 0)
InitEier ==
    /\ modul = "eier"
    /\ SideHvile
    /\ pc = "tab5"
    /\ boligpris \in 1 .. MaxPris
    /\ \E e \in 0 .. boligpris :
          /\ egenkapital = QInt(e)
          /\ laan = boligpris - e
          /\ \E a \in (IF EgenkapitalFordelt(boligpris, QInt(e))
                        THEN {Ingen} \cup (0 .. e) ELSE {0}) :
                /\ egenkapital_a =
                      IF ~ EgenkapitalFordelt(boligpris, QInt(e)) THEN QInt(0)
                      ELSE IF a = Ingen THEN QDiv(QInt(e), QInt(2)) ELSE QInt(a)
                /\ egenkapital_b =
                      IF ~ EgenkapitalFordelt(boligpris, QInt(e)) THEN QInt(0)
                      ELSE QSub(QInt(e), egenkapital_a)
    /\ nedbetalingstid_aar \in 1 .. MaxTid
    /\ fordeling_type \in FordelingRadio
    /\ custom_split \in (IF fordeling_type = "Egendefinert" THEN CustomValg ELSE {Ingen})
    /\ inntekt_a \in (IF fordeling_type = "Proporsjonal etter inntekt"
                       THEN 0 .. MaxInntekt ELSE {0})
    /\ inntekt_b \in (IF fordeling_type = "Proporsjonal etter inntekt"
                       THEN 0 .. MaxInntekt ELSE {0})
    /\ total_kostnad = TerminbelopEksakt(laan, 0, nedbetalingstid_aar)
    /\ LET r == beregn_fordeling(total_kostnad, inntekt_a, inntekt_b,
                                  fordeling_type, custom_split)
       IN  kostnad_a = r[1] /\ kostnad_b = r[2]
    /\ rente = 0 /\ antall_aar = 0 /\ avrunding = 0 /\ terminbelop = FlInt(0)
    /\ mnd = 0 /\ gjenstaaende = FlInt(0) /\ plan = << >>
    /\ verdiendring_prosent = QInt(0) /\ salgskostnader_prosent = QInt(0)
    /\ total_avdrag = QInt(0) /\ gjenstaaende_laan = QInt(0)
    /\ salgspris = QInt(0) /\ salgskostnader = QInt(0)
    /\ netto_salgssum = QInt(0) /\ verdiendring_kr = QInt(0)
    /\ nedbetalt_a = QInt(0) /\ nedbetalt_b = QInt(0)
    /\ total_investert_a = QInt(0) /\ total_investert_b = QInt(0)
    /\ total_investert = QInt(0) /\ fordelingsmodell = "Modell 1"
    /\ utbetaling_a = Ingen /\ utbetaling_b = Ingen
    /\ TilleggHvile

\* line 1134 reads egenkapital_a, which tab1 did not assign
NavnFeil ==
    /\ modul = "eier"
    /\ pc = "tab5"
    /\ ~ EgenkapitalFordelt(boligpris, egenkapital)
    /\ utfall' = "NameError"
    /\ pc' = "feil"
    /\ UNCHANGED << sidevars, modul, planvars, fordvars, salgvars, oppgjorvars,
                    scenario_resultater, eiervars, belastvars, prognosevars >>

\* one iteration of "for i, year in enumerate(years)"
EierandelAar ==
    /\ modul = "eier"
    /\ pc = "tab5"
    /\ EgenkapitalFordelt(boligpris, egenkapital)
    /\ aar_i <= nedbetalingstid_aar
    /\ LET r == Eierandeler(boligpris, egenkapital_a, egenkapital_b, laan,
                             nedbetalingstid_aar,
                             AvdragAndelA(fordeling_type, kostnad_a, kostnad_b,
                                          custom_split),
                             aar_i)
       IN  /\ eierandel_a_over_tid' = Append(eierandel_a_over_tid, r.a)
           /\ eierandel_b_over_tid' = Append(eierandel_b_over_tid, r.b)
           /\ total_nedbetalt' = Append(total_nedbetalt, r.nedbetalt)
           /\ gjenstaaende_liste' = Append(gjenstaaende_liste, r.gjenstaaende)
    /\ aar_i' = aar_i + 1
    /\ UNCHANGED << sidevars, modul, pc, planvars, fordvars, salgvars, oppgjorvars,
                    scenario_resultater, belastvars, prognosevars, utfall >>

\* years is exhausted: the four lists are complete
EierandelFerdig ==
    /\ modul = "eier"
    /\ pc = "tab5"
    /\ EgenkapitalFordelt(boligpris, egenkapital)
    /\ aar_i > nedbetalingstid_aar
    /\ pc' = "ferdig"
    /\ UNCHANGED << sidevars, modul, planvars, fordvars, salgvars, oppgjorvars, tilleggsvars >>

NextEier == NavnFeil \/ EierandelAar \/ EierandelFerdig

SpecEier == InitEier /\ [][NextEier]_vars

Hundre == QInt(100)

avdrag_andel_a == AvdragAndelA(fordeling_type, kostnad_a, kostnad_b, custom_split)

\* the results of tab5 for the two parties exchanged: incomes and equity
\* swapped, custom_split replaced by 100 - custom_split
Byttet(k) ==
    LET custom_byttet == IF custom_split = Ingen THEN Ingen ELSE 100 - custom_split
        kostnad_byttet == beregn_fordeling(total_kostnad, inntekt_b, inntekt_a,
                                           fordeling_type, custom_byttet)
        andel_byttet == AvdragAndelA(fordeling_type, kostnad_byttet[1],
                                     kostnad_byttet[2], custom_byttet)
    IN  [ kostnad |-> kostnad_byttet,
          andel_a |-> andel_byttet,
          eierandel |-> Eierandeler(boligpris, egenkapital_b, egenkapital_a, laan,
                                    nedbetalingstid_aar, andel_byttet, k) ]

\* C17: exchanging the two parties' inputs (incomes, equity, custom_split
\* against 100 - custom_split) exchanges their results: the pair of
\* beregn_fordeling, the shares of the principal and the ownership
\* percentages of every year.
C17_Symmetri ==
    (modul = "eier" /\ pc = "ferdig") =>
        /\ Byttet(0).kostnad = << kostnad_b, kostnad_a >>
        /\ Byttet(0).andel_a = QSub(QInt(1), avdrag_andel_a)
        /\ \A k \in 1 .. Len(eierandel_a_over_tid) :
               /\ Byttet(k - 1).eierandel.a = eierandel_b_over_tid[k]
               /\ Byttet(k - 1).eierandel.b = eierandel_a_over_tid[k]

\* C14: in every year 0 .. nedbetalingstid, under every allocation policy and
\* every split of the equity, each party's ownership percentage lies in
\* [0, 100] and the two sum to at most 100.
C14_EierandelGrenser ==
    modul = "eier" =>
        \A k \in 1 .. Len(eierandel_a_over_tid) :
            /\ QLe(QInt(0), eierandel_a_over_tid[k])
            /\ QLe(eierandel_a_over_tid[k], Hundre)
            /\ QLe(QInt(0), eierandel_b_over_tid[k])
            /\ QLe(eierandel_b_over_tid[k], Hundre)
            /\ QLe(QAdd(eierandel_a_over_tid[k], eierandel_b_over_tid[k]), Hundre)

C14_Witness ==
    /\ modul = "eier" /\ pc = "ferdig" /\ laan > 0
    /\ Len(eierandel_a_over_tid) = nedbetalingstid_aar + 1
    /\ eierandel_a_over_tid[Len(eierandel_a_over_tid)] = Hundre
    /\ eierandel_b_over_tid[Len(eierandel_b_over_tid)] = QInt(0)

\* C15: from one year to the next each party's ownership percentage does not
\* decrease, and it increases strictly for a party with a non-zero share of
\* the principal payments while the loan is not yet fully repaid.
C15_EierandelVoksende ==
    modul = "eier" =>
        \A k \in 1 .. Len(eierandel_a_over_tid) - 1 :
            /\ QLe(eierandel_a_over_tid[k], eierandel_a_over_tid[k + 1])
            /\ QLe(eierandel_b_over_tid[k], eierandel_b_over_tid[k + 1])
            /\ (QGt(avdrag_andel_a, QInt(0)) /\ QGt(gjenstaaende_liste[k], QInt(0))) =>
                   QLt(eierandel_a_over_tid[k], eierandel_a_over_tid[k + 1])
            /\ (QLt(avdrag_andel_a, QInt(1)) /\ QGt(gjenstaaende_liste[k], QInt(0))) =>
                   QLt(eierandel_b_over_tid[k], eierandel_b_over_tid[k + 1])

C15_Witness ==
    /\ modul = "eier" /\ pc = "ferdig" /\ laan > 0 /\ nedbetalingstid_aar >= 3
    /\ QGt(avdrag_andel_a, QInt(0)) /\ QLt(avdrag_andel_a, Halv)
    /\ QLt(eierandel_a_over_tid[2], eierandel_a_over_tid[3])

\* C16: in year 0 each party's ownership is own equity / price * 100, and in
\* every year the two ownership percentages plus the outstanding loan as a
\* percentage of the price make 100 (so they sum to 100 once the loan is 0).
C16_EierandelBevart ==
    modul = "eier" =>
        /\ Len(eierandel_a_over_tid) >= 1 =>
               /\ eierandel_a_over_tid[1] =
                      QDiv(QMul(egenkapital_a, Hundre), QInt(boligpris))
               /\ eierandel_b_over_tid[1] =
                      QDiv(QMul(egenkapital_b, Hundre), QInt(boligpris))
        /\ \A k \in 1 .. Len(eierandel_a_over_tid) :
               QAdd(QAdd(eierandel_a_over_tid[k], eierandel_b_over_tid[k]),
                    QDiv(QMul(gjenstaaende_liste[k], Hundre), QInt(boligpris)))
                   = Hundre
        /\ pc = "ferdig" =>
               /\ Len(eierandel_a_over_tid) = nedbetalingstid_aar + 1
               /\ gjenstaaende_liste[nedbetalingstid_aar + 1] = QInt(0)
               /\ QAdd(eierandel_a_over_tid[nedbetalingstid_aar + 1],
                       eierandel_b_over_tid[nedbetalingstid_aar + 1]) = Hundre

C16_Witness ==
    /\ modul = "eier" /\ pc = "ferdig" /\ laan > 0
    /\ egenkapital_a # egenkapital_b
    /\ gjenstaaende_liste[Len(gjenstaaende_liste)] = QInt(0)
    /\ QGt(gjenstaaende_liste[2], QInt(0))
    /\ QAdd(eierandel_a_over_tid[Len(eierandel_a_over_tid)],
            eierandel_b_over_tid[Len(eierandel_b_over_tid)]) = Hundre

\* ------------------------------------ beregn_terminbelop on any term
\* the divisor of line 63 or of line 69 is zero: Python raises
\* ZeroDivisionError
TerminbelopFeiler(l, r, tid) ==
    IF r = 0
    THEN tid * MndPerAar = 0
    ELSE QSub(QPow(QAdd(QInt(1), maanedlig_rente_av(r)), tid * MndPerAar), QInt(1))
             = QInt(0)

InitTermin ==
    /\ modul = "termin"
    /\ SideHvile
    /\ pc = "kall"
    /\ laan \in 0 .. MaxLaan
    /\ nedbetalingstid_aar \in -MaxTid .. MaxTid
    /\ rente \in Renter(nedbetalingstid_aar)
    /\ avrunding \in (IF TerminbelopFeiler(laan, rente, nedbetalingstid_aar)
                       THEN {0} ELSE Avrundinger(laan, rente, nedbetalingstid_aar))
    /\ terminbelop = FlInt(0)
    /\ antall_aar = 0 /\ mnd = 0 /\ gjenstaaende = FlInt(0) /\ plan = << >>
    /\ FordHvile
    /\ SalgHvile
    /\ OppgjorHvile
    /\ TilleggHvile

\* a call of beregn_terminbelop(laan, rente, nedbetalingstid_aar)
KallTerminbelop ==
    /\ modul = "termin"
    /\ pc = "kall"
    /\ IF TerminbelopFeiler(laan, rente, nedbetalingstid_aar)
       THEN /\ utfall' = "ZeroDivisionError"
            /\ UNCHANGED terminbelop
       ELSE /\ utfall' = "verdi"
            /\ terminbelop' =
                  beregn_terminbelop(laan, rente, nedbetalingstid_aar, avrunding)
    /\ pc' = "ferdig"
    /\ UNCHANGED << sidevars, modul, laan, rente, nedbetalingstid_aar, antall_aar, avrunding,
                    mnd, gjenstaaende, plan, fordvars, salgvars, oppgjorvars,
                    scenario_resultater, eiervars, belastvars, prognosevars >>

NextTermin == KallTerminbelop

SpecTermin == InitTermin /\ [][NextTermin]_vars

\* C18: beregn_terminbelop called with nedbetalingstid_aar <= 0 ends in an
\* error; it never returns an ordinary number.
C18_TerminFeil ==
    (modul = "termin" /\ pc = "ferdig" /\ nedbetalingstid_aar <= 0) =>
        utfall # "verdi"

\* ----------- beregn_belastningsgrad and beregn_effektiv_belastning
MaxFradrag == 2

beregn_belastningsgrad(utgifter, inntekt) ==
    IF inntekt = 0 THEN QInt(0) ELSE QMul(Q(utgifter, inntekt), QInt(100))

\* the tax deduction is left out of the divisor
beregn_effektiv_belastning_uten_fradrag(utgifter, inntekt, fradrag) ==
    IF inntekt = 0 THEN QInt(0) ELSE QMul(Q(utgifter, inntekt), QInt(100))

\* defined where the divisor of line 146 is not zero
beregn_effektiv_belastning(utgifter, inntekt, fradrag) ==
    IF inntekt = 0 THEN QInt(0) ELSE QMul(Q(utgifter, inntekt + fradrag), QInt(100))

\* line 146 divides by zero
EffektivFeiler(inntekt, fradrag) == inntekt # 0 /\ inntekt + fradrag = 0

InitBelastning ==
    /\ modul = "belastning"
    /\ SideHvile
    /\ pc = "belastningsgrad"
    /\ boligutgifter \in 0 .. MaxKostnad
    /\ nettoinntekt \in -1 .. MaxInntekt
    /\ skattefradrag_mnd \in 0 .. MaxFradrag
    /\ belastningsgrad = Ingen
    /\ effektiv_belastning = Ingen
    /\ scenario_resultater = << >> /\ EierHvile /\ PrognoseHvile /\ utfall = "ingen"
    /\ PlanHvile
    /\ FordHvile
    /\ SalgHvile
    /\ OppgjorHvile

\* a call of beregn_belastningsgrad(boligutgifter, nettoinntekt)
KallBelastningsgrad ==
    /\ modul = "belastning"
    /\ pc = "belastningsgrad"
    /\ belastningsgrad' = beregn_belastningsgrad(boligutgifter, nettoinntekt)
    /\ utfall' = "verdi"
    /\ pc' = "effektiv"
    /\ UNCHANGED << sidevars, modul, planvars, fordvars, salgvars, oppgjorvars,
                    scenario_resultater, eiervars, prognosevars, boligutgifter,
                    nettoinntekt, skattefradrag_mnd, effektiv_belastning >>

\* a call of beregn_effektiv_belastning(boligutgifter, nettoinntekt,
\* skattefradrag_mnd)
KallEffektivBelastning ==
    /\ modul = "belastning"
    /\ pc = "effektiv"
    /\ IF EffektivFeiler(nettoinntekt, skattefradrag_mnd)
       THEN /\ utfall' = "ZeroDivisionError"
            /\ UNCHANGED effektiv_belastning
       ELSE /\ utfall' = "verdi"
            /\ effektiv_belastning' =
                  beregn_effektiv_belastning(boligutgifter, nettoinntekt,
                                             skattefradrag_mnd)
    /\ pc' = "ferdig"
    /\ UNCHANGED << sidevars, modul, planvars, fordvars, salgvars, oppgjorvars,
                    scenario_resultater, eiervars, prognosevars, boligutgifter,
                    nettoinntekt, skattefradrag_mnd, belastningsgrad >>

NextBelastning == KallBelastningsgrad \/ KallEffektivBelastning

SpecBelastning == InitBelastning /\ [][NextBelastning]_vars

\* C19: beregn_belastningsgrad returns cost/income*100 for income # 0 and 0
\* for income 0; beregn_effektiv_belastning returns
\* cost/(income + deduction)*100 for income # 0 and 0 for income 0; with
\* income >= 0 and deduction >= 0 neither ends in a division error.
C19_Belastning ==
    modul = "belastning" =>
        /\ pc \in {"effektiv", "ferdig"} =>
               belastningsgrad =
                   IF nettoinntekt # 0
                   THEN QDiv(QInt(boligutgifter * 100), QInt(nettoinntekt))
                   ELSE QInt(0)
        /\ pc = "effektiv" => utfall = "verdi"
        /\ pc = "ferdig" =>
               /\ (nettoinntekt >= 0 /\ skattefradrag_mnd >= 0) => utfall = "verdi"
               /\ utfall = "verdi" =>
                      effektiv_belastning =
                          IF nettoinntekt # 0
                          THEN QDiv(QInt(boligutgifter * 100),
                                    QInt(nettoinntekt + skattefradrag_mnd))
                          ELSE QInt(0)

C19_Witness ==
    /\ modul = "belastning" /\ pc = "ferdig" /\ utfall = "verdi"
    /\ nettoinntekt = 0 /\ boligutgifter > 0 /\ skattefradrag_mnd > 0
    /\ belastningsgrad = QInt(0) /\ effektiv_belastning = QInt(0)

\* ------------------------------------------------ generer_renteprognose
PrognoseLengde == 10
ForsteAar == 2025

\* the forecast with 2028 at the level of the following years
styringsrente_prognose_flat_fra_2028 ==
    << Q(425, 100), QInt(4), Q(35, 10), QInt(3), QInt(3), QInt(3), QInt(3),
       QInt(3), QInt(3), QInt(3) >>

\* Norges Bank's policy-rate forecast, indexed by year - 2024
styringsrente_prognose ==
    << Q(425, 100), QInt(4), Q(35, 10), Q(31, 10), QInt(3), QInt(3), QInt(3),
       QInt(3), QInt(3), QInt(3) >>

QMax(a, b) == IF QLt(a, b) THEN b ELSE a

\* "moderat": current after the iterations 0 .. n of the loop
RECURSIVE CurrentModerat(_, _)
CurrentModerat(basis, n) ==
    IF n < 0 THEN basis
    ELSE QAdd(CurrentModerat(basis, n - 1),
              IF n < 3 THEN Q(2, 10) ELSE IF n < 5 THEN Q(1, 10) ELSE Q(5, 100))

\* the final else branch: current after the iterations 0 .. n of the loop
RECURSIVE CurrentHoy(_, _)
CurrentHoy(basis, n) ==
    IF n < 0 THEN basis
    ELSE QAdd(CurrentHoy(basis, n - 1),
              IF n < 2 THEN Q(5, 10) ELSE IF n < 5 THEN Q(3, 10) ELSE Q(1, 10))

\* the legacy paths without their ceilings
PrognoseRenteUtenTak(basis, type, n) ==
    IF type = "norges_bank" THEN QAdd(styringsrente_prognose[n + 1], Q(15, 10))
    ELSE IF type = "optimistisk" THEN QAdd(styringsrente_prognose[n + 1], QInt(1))
    ELSE IF type = "pessimistisk"
    THEN QMin(QInt(8), QAdd(QAdd(styringsrente_prognose[n + 1], Q(5, 10)), QInt(2)))
    ELSE IF type = "lav" THEN QMax(Q(15, 10), QSub(basis, QMul(Q(1, 10), QInt(n))))
    ELSE IF type = "moderat" THEN CurrentModerat(basis, n)
    ELSE CurrentHoy(basis, n)

\* every unlisted name taken as "moderat"
PrognoseRenteUkjentModerat(basis, type, n) ==
    IF type = "norges_bank" THEN QAdd(styringsrente_prognose[n + 1], Q(15, 10))
    ELSE IF type = "optimistisk" THEN QAdd(styringsrente_prognose[n + 1], QInt(1))
    ELSE IF type = "pessimistisk"
    THEN QMin(QInt(8), QAdd(QAdd(styringsrente_prognose[n + 1], Q(5, 10)), QInt(2)))
    ELSE IF type = "lav" THEN QMax(Q(15, 10), QSub(basis, QMul(Q(1, 10), QInt(n))))
    ELSE IF type \in {"moderat", "annet"} THEN QMin(QInt(6), CurrentModerat(basis, n))
    ELSE QMin(QInt(8), CurrentHoy(basis, n))

\* renter[n] for n in 0 .. 9
PrognoseRente(basis, type, n) ==
    IF type = "norges_bank" THEN QAdd(styringsrente_prognose[n + 1], Q(15, 10))
    ELSE IF type = "optimistisk" THEN QAdd(styringsrente_prognose[n + 1], QInt(1))
    ELSE IF type = "pessimistisk"
    THEN QMin(QInt(8), QAdd(QAdd(styringsrente_prognose[n + 1], Q(5, 10)), QInt(2)))
    ELSE IF type = "lav" THEN QMax(Q(15, 10), QSub(basis, QMul(Q(1, 10), QInt(n))))
    ELSE IF type = "moderat" THEN QMin(QInt(6), CurrentModerat(basis, n))
    ELSE QMin(QInt(8), CurrentHoy(basis, n))

\* range(2025, 2034): the last year is missing
aar_uten_siste == [k \in 1 .. PrognoseLengde - 1 |-> ForsteAar + k - 1]

\* aar = list(range(2025, 2035))
aar == [k \in 1 .. PrognoseLengde |-> ForsteAar + k - 1]

\* names passed for prognose_type; "hoy" goes, like every unlisted name
\* ("annet"), to the final else branch
PROGNOSETYPER ==
    {"norges_bank", "optimistisk", "pessimistisk", "lav", "moderat", "hoy", "annet"}

BasisRenteValg == {QInt(0), Q(3, 2), Q(499, 100), Q(59, 10), QInt(8), QInt(10)}

InitPrognose ==
    /\ modul = "prognose"
    /\ SideHvile
    /\ pc = "renter"
    /\ basis_rente \in BasisRenteValg
    /\ prognose_type \in PROGNOSETYPER
    /\ prognose_aar = << >>
    /\ prognose_renter = << >>
    /\ scenario_resultater = << >> /\ EierHvile /\ BelastHvile /\ utfall = "ingen"
    /\ PlanHvile
    /\ FordHvile
    /\ SalgHvile
    /\ OppgjorHvile

\* the next element of the list renter is computed
PrognoseAar ==
    /\ modul = "prognose"
    /\ pc = "renter"
    /\ Len(prognose_renter) < PrognoseLengde
    /\ prognose_renter' =
          Append(prognose_renter,
                 PrognoseRente(basis_rente, prognose_type, Len(prognose_renter)))
    /\ UNCHANGED << sidevars, modul, pc, planvars, fordvars, salgvars, oppgjorvars,
                    scenario_resultater, eiervars, belastvars, utfall, basis_rente,
                    prognose_type, prognose_aar >>

\* return pd.DataFrame({'År': aar, 'Rente': renter})
PrognoseReturner ==
    /\ modul = "prognose"
    /\ pc = "renter"
    /\ Len(prognose_renter) = PrognoseLengde
    /\ prognose_aar' = aar
    /\ utfall' = IF Len(aar) = Len(prognose_renter) THEN "verdi" ELSE "ValueError"
    /\ pc' = "ferdig"
    /\ UNCHANGED << sidevars, modul, planvars, fordvars, salgvars, oppgjorvars,
                    scenario_resultater, eiervars, belastvars, basis_rente,
                    prognose_type, prognose_renter >>

NextPrognose == PrognoseAar \/ PrognoseReturner

SpecPrognose == InitPrognose /\ [][NextPrognose]_vars

\* C20: for every policy name and every base rate generer_renteprognose
\* returns exactly 10 (year, rate) pairs, the years 2025, 2026, ..., 2034 in
\* ascending order with one rate each.
C20_TiAar ==
    (modul = "prognose" /\ pc = "ferdig") =>
        /\ utfall = "verdi"
        /\ Len(prognose_aar) = 10
        /\ Len(prognose_renter) = 10
        /\ \A k \in 1 .. 10 : prognose_aar[k] = 2024 + k

C20_Witness ==
    /\ modul = "prognose" /\ pc = "ferdig" /\ prognose_type = "annet"
    /\ Len(prognose_renter) = 10 /\ prognose_aar[10] = 2034

\* ------------------------------------- generer_renteprognose: the rates
PrognoseFerdig == modul = "prognose" /\ pc = "ferdig"

\* the policy-rate table as the specification states it, 2025 .. 2034
Styringsrente(y) ==
    IF y = 2025 THEN Q(425, 100)
    ELSE IF y = 2026 THEN QInt(4)
    ELSE IF y = 2027 THEN Q(35, 10)
    ELSE IF y = 2028 THEN Q(31, 10)
    ELSE QInt(3)

\* C21: for every base rate the "norges_bank" rate of year y is the policy
\* rate of y plus 1.5, the "optimistisk" rate is the policy rate plus 1.0 and
\* the "pessimistisk" rate is min(8.0, policy rate + 0.5 + 2.0); the
\* "norges_bank" rate of 2025 is 5.75 and no "pessimistisk" rate exceeds 8.0.
C21_Tabellrenter ==
    PrognoseFerdig =>
        /\ prognose_type = "norges_bank" =>
               /\ \A k \in 1 .. 10 :
                      prognose_renter[k] =
                          QAdd(Styringsrente(prognose_aar[k]), Q(3, 2))
               /\ prognose_renter[1] = Q(575, 100)
        /\ prognose_type = "optimistisk" =>
               \A k \in 1 .. 10 :
                   prognose_renter[k] = QAdd(Styringsrente(prognose_aar[k]), QInt(1))
        /\ prognose_type = "pessimistisk" =>
               \A k \in 1 .. 10 :
                   /\ prognose_renter[k] =
                          QMin(QInt(8), QAdd(Styringsrente(prognose_aar[k]), Q(5, 2)))
                   /\ QLe(prognose_renter[k], QInt(8))

C21_Witness ==
    /\ PrognoseFerdig /\ prognose_type = "pessimistisk"
    /\ basis_rente = QInt(10)
    /\ prognose_renter[1] = Q(675, 100) /\ prognose_renter[4] = Q(56, 10)

\* what the tiers have added after k years: s1 in each of the first t1 years,
\* s2 in each year after that up to t2, s3 in each later year
Opptrapping(k, t1, t2, s1, s2, s3) ==
    QAdd(QAdd(QMul(s1, QInt(Min(k, t1))),
              QMul(s2, QInt(IF k > t1 THEN Min(k, t2) - t1 ELSE 0))),
         QMul(s3, QInt(IF k > t2 THEN k - t2 ELSE 0)))

\* C22: for every base rate "lav" yields max(1.5, base - 0.1*i), i = 0..9,
\* non-increasing and never below 1.5; "moderat" accumulates +0.2 in each of
\* the first 3 years, +0.1 in the next 2 and +0.05 afterwards and yields
\* min(6.0, accumulated); the high path accumulates +0.5 in the first 2
\* years, +0.3 in the next 3 and +0.1 afterwards and yields
\* min(8.0, accumulated); both rising paths are non-decreasing and never
\* exceed their ceiling.
C22_GamleModeller ==
    PrognoseFerdig =>
        /\ prognose_type = "lav" =>
               /\ \A k \in 1 .. 10 :
                      /\ prognose_renter[k] =
                             QMax(Q(3, 2), QSub(basis_rente, Q(k - 1, 10)))
                      /\ QLe(Q(3, 2), prognose_renter[k])
               /\ \A k \in 1 .. 9 : QLe(prognose_renter[k + 1], prognose_renter[k])
        /\ prognose_type = "moderat" =>
               /\ \A k \in 1 .. 10 :
                      /\ prognose_renter[k] =
                             QMin(QInt(6),
                                  QAdd(basis_rente,
                                       Opptrapping(k, 3, 5, Q(1, 5), Q(1, 10), Q(1, 20))))
                      /\ QLe(prognose_renter[k], QInt(6))
               /\ \A k \in 1 .. 9 : QLe(prognose_renter[k], prognose_renter[k + 1])
        /\ prognose_type = "hoy" =>
               /\ \A k \in 1 .. 10 :
                      /\ prognose_renter[k] =
                             QMin(QInt(8),
                                  QAdd(basis_rente,
                                       Opptrapping(k, 2, 5, Q(1, 2), Q(3, 10), Q(1, 10))))
                      /\ QLe(prognose_renter[k], QInt(8))
               /\ \A k \in 1 .. 9 : QLe(prognose_renter[k], prognose_renter[k + 1])

\* a moderate path that meets its ceiling on the way
C22_Witness ==
    /\ PrognoseFerdig /\ prognose_type = "moderat"
    /\ basis_rente = Q(499, 100)
    /\ prognose_renter[1] = Q(519, 100)
    /\ prognose_renter[9] = Q(599, 100)
    /\ prognose_renter[10] = QInt(6)

\* ------------------------------------------- tab1/tab5: defined values
\* C23: for every accepted input (equity 0 .. price, equity below 15 % of the
\* price and equity equal to the price included) the per-party equity
\* contributions and the ownership series are computed to defined values:
\* tab5 raises no error, and when it has run, the two contributions make up
\* the equity and the series holds one entry per year 0 .. term.
C23_AltDefinert ==
    modul = "eier" =>
        /\ utfall # "NameError"
        /\ pc # "feil"
        /\ pc = "ferdig" =>
               /\ QAdd(egenkapital_a, egenkapital_b) = egenkapital
               /\ Len(eierandel_a_over_tid) = nedbetalingstid_aar + 1
               /\ Len(eierandel_b_over_tid) = nedbetalingstid_aar + 1

\* ------------------------------------------------ @st.cache_data
MaxKall == 4

\* the key leaves out the last argument of the call
cache_key_uten_siste(args) == [i \in 1 .. Len(args) - 1 |-> << i, args[i] >>]

\* the key under which st.cache_data stores a result: every argument of the
\* call, by position
cache_key(args) == [i \in 1 .. Len(args) |-> << i, args[i] >>]

\* the entries stored under a key
Treff(c, key) == {e \in c : e.key = key}

\* the wrapper of a decorated function: the stored value if the key is
\* known, else the value the function body computes, which is then stored
Cachet(c, key, fersk) ==
    IF Treff(c, key) # {}
    THEN [verdi |-> (CHOOSE e \in Treff(c, key) : TRUE).verdi, cache |-> c,
          treff |-> TRUE]
    ELSE [verdi |-> fersk, cache |-> c \cup {[key |-> key, verdi |-> fersk]},
          treff |-> FALSE]

\* the rounding of the float quotient: one fixed direction per argument tuple
AvrundingAv(l, r, tid) == CHOOSE a \in Avrundinger(l, r, tid) : TRUE

\* the body of beregn_terminbelop
TerminbelopKropp(args) ==
    beregn_terminbelop(args[1], args[2], args[3],
                       AvrundingAv(args[1], args[2], args[3]))

\* plan and running balance after n passes of the for loop
RECURSIVE PlanEtter(_, _, _, _)
PlanEtter(l, t, mr, n) ==
    IF n = 0 THEN [plan |-> << >>, gjenstaaende |-> FlInt(l)]
    ELSE LET f == PlanEtter(l, t, mr, n - 1)
         IN  IF FlLe0(f.gjenstaaende) \/ Len(f.plan) < n - 1 THEN f
             ELSE LET s == Steg(n - 1, t, f.gjenstaaende, mr)
                  IN  [plan |-> Append(f.plan, s.rad),
                       gjenstaaende |-> s.gjenstaaende]

\* the body of beregn_amortiseringsplan, given what its call of
\* beregn_terminbelop returned
PlanKropp(args, t) ==
    PlanEtter(args[1], t, maanedlig_rente_av(args[2]),
              StandardAntall(args[4], args[3]) * MndPerAar).plan

\* the body of generer_renteprognose
generer_renteprognose(args) ==
    [ Aar |-> aar,
      Rente |-> [k \in 1 .. PrognoseLengde |-> PrognoseRente(args[1], args[2], k - 1)] ]

\* argument tuples of the calls
TerminArgs == {<< l, r, 1 >> : l \in {1, 2}, r \in {0, 1200}}
PlanArgs == {<< l, 0, 1, a >> : l \in {1, 2}, a \in {Ingen, 1}}
PrognoseArgs == {<< b, t >> : b \in {QInt(0), QInt(8)}, t \in {"lav", "hoy"}}

InitCache ==
    /\ modul = "cache"
    /\ pc = "kall"
    /\ CacheHvile
    /\ LagringHvile
    /\ PlanHvile
    /\ FordHvile
    /\ SalgHvile
    /\ OppgjorHvile
    /\ TilleggHvile

\* beregn_terminbelop(laan, rente, nedbetalingstid_aar) through its wrapper
KallTerminbelopCachet ==
    /\ modul = "cache"
    /\ kall_nr < MaxKall
    /\ \E args \in TerminArgs :
          LET r == Cachet(cache.terminbelop, cache_key(args), TerminbelopKropp(args))
          IN  /\ cache' = [cache EXCEPT !.terminbelop = r.cache]
              /\ kall' = [funksjon |-> "beregn_terminbelop", args |-> args,
                          resultat |-> r.verdi, treff |-> r.treff]
    /\ kall_nr' = kall_nr + 1
    /\ UNCHANGED << modul, pc, planvars, fordvars, salgvars, oppgjorvars,
                    tilleggsvars, lagringsvars >>

\* beregn_amortiseringsplan(laan, rente, nedbetalingstid_aar, antall_aar)
\* through its wrapper; on a miss the body calls the wrapped
\* beregn_terminbelop
KallAmortiseringsplanCachet ==
    /\ modul = "cache"
    /\ kall_nr < MaxKall
    /\ \E args \in PlanArgs :
          LET targs == << args[1], args[2], args[3] >>
              t == Cachet(cache.terminbelop, cache_key(targs), TerminbelopKropp(targs))
              r == Cachet(cache.plan, cache_key(args), PlanKropp(args, t.verdi))
          IN  /\ cache' = [cache EXCEPT !.plan = r.cache,
                                        !.terminbelop = IF r.treff THEN @ ELSE t.cache]
              /\ kall' = [funksjon |-> "beregn_amortiseringsplan", args |-> args,
                          resultat |-> r.verdi, treff |-> r.treff]
    /\ kall_nr' = kall_nr + 1
    /\ UNCHANGED << modul, pc, planvars, fordvars, salgvars, oppgjorvars,
                    tilleggsvars, lagringsvars >>

\* generer_renteprognose(basis_rente, prognose_type) through its wrapper
KallRenteprognoseCachet ==
    /\ modul = "cache"
    /\ kall_nr < MaxKall
    /\ \E args \in PrognoseArgs :
          LET r == Cachet(cache.prognose, cache_key(args), generer_renteprognose(args))
          IN  /\ cache' = [cache EXCEPT !.prognose = r.cache]
              /\ kall' = [funksjon |-> "generer_renteprognose", args |-> args,
                          resultat |-> r.verdi, treff |-> r.treff]
    /\ kall_nr' = kall_nr + 1
    /\ UNCHANGED << modul, pc, planvars, fordvars, salgvars, oppgjorvars,
                    tilleggsvars, lagringsvars >>

NextCache ==
    KallTerminbelopCachet \/ KallAmortiseringsplanCachet \/ KallRenteprognoseCachet

SpecCache == InitCache /\ [][NextCache]_vars

\* the uncached computations, tabulated over the argument tuples
TerminbelopTabell == [x \in TerminArgs |-> TerminbelopKropp(x)]

PlanTabell ==
    [x \in PlanArgs |-> PlanKropp(x, TerminbelopKropp(<< x[1], x[2], x[3] >>))]

PrognoseTabell == [x \in PrognoseArgs |-> generer_renteprognose(x)]

FerskTerminbelop(args) == TerminbelopTabell[args]

FerskPlan(args) == PlanTabell[args]

FerskPrognose(args) == PrognoseTabell[args]

C25_EgendefinertAndel ==
    (/\ modul = "salg"
     /\ pc \in {"velg", "modell", "scenario", "slutt"}
     /\ fordeling_type = "Egendefinert") =>
        /\ nedbetalt_a = QMul(total_avdrag, Q(custom_split, 100))
        /\ nedbetalt_b = QMul(total_avdrag, QSub(QInt(1), Q(custom_split, 100)))
        /\ kostnad_a = QMul(total_kostnad, Q(custom_split, 100))
        /\ kostnad_b = QMul(total_kostnad, QSub(QInt(1), Q(custom_split, 100)))

\* ------------------------------------- tab7: outstanding balance at the sale
Analysert == modul = "salg" /\ pc \in {"salgsoppgjor", "eierandel", "velg"}

MaxKlokke == 7
MAKS_RASK_LAGRINGER == 5

\* names typed into the text input
NavnValg == {"", "A", "B"}

\* pop() instead of pop(0): the entry just appended is removed
LeggTilOgFjernNyeste(liste, quick_save) ==
    LET ny == Append(liste, quick_save)
    IN  IF Len(ny) > MAKS_RASK_LAGRINGER THEN SubSeq(ny, 1, Len(ny) - 1) ELSE ny

\* lines 3158-3160: append, then pop(0) if the list has more than 5 entries
LeggTil(liste, quick_save) ==
    LET ny == Append(liste, quick_save)
    IN  IF Len(ny) > MAKS_RASK_LAGRINGER THEN Tail(ny) ELSE ny

\* lines 3139-3140: the list is created empty in a new session
InitLagring ==
    /\ modul = "lagring"
    /\ pc = "sidebar"
    /\ LagringHvile
    /\ CacheHvile
    /\ PlanHvile
    /\ FordHvile
    /\ SalgHvile
    /\ OppgjorHvile
    /\ TilleggHvile

\* the user edits the text input; the run that follows presses no button
SkrivNavn ==
    /\ modul = "lagring"
    /\ save_name' \in NavnValg \ {save_name}
    /\ knapp' = "ingen"
    /\ UNCHANGED << modul, pc, planvars, fordvars, salgvars, oppgjorvars,
                    tilleggsvars, cachevars, quick_saves, klokke >>

\* lines 3147-3162: the button "Rask-lagre"; the entry carries the name and
\* the time of the run (the figures boligpris, rente and kostnad it also
\* carries are those of the main inputs)
RaskLagre ==
    /\ modul = "lagring"
    /\ klokke < MaxKlokke
    /\ klokke' = klokke + 1
    /\ knapp' = "lagre"
    /\ quick_saves' =
          IF save_name # ""
          THEN LeggTil(quick_saves, [navn |-> save_name, tid |-> klokke'])
          ELSE quick_saves
    /\ UNCHANGED << modul, pc, planvars, fordvars, salgvars, oppgjorvars,
                    tilleggsvars, cachevars, save_name >>

\* lines 3164-3167: the button "Tøm alle"
TomAlle ==
    /\ modul = "lagring"
    /\ klokke < MaxKlokke
    /\ klokke' = klokke + 1
    /\ knapp' = "tom"
    /\ quick_saves' = << >>
    /\ UNCHANGED << modul, pc, planvars, fordvars, salgvars, oppgjorvars,
                    tilleggsvars, cachevars, save_name >>

NextLagring == SkrivNavn \/ RaskLagre \/ TomAlle

SpecLagring == InitLagring /\ [][NextLagring]_vars

\* the last five entries of a list
SisteFem(liste) ==
    IF Len(liste) <= 5 THEN liste ELSE SubSeq(liste, Len(liste) - 4, Len(liste))

\* C27: the quick-save list never holds more than 5 entries; a quick-save
\* with a non-empty name appends the entry at the end and, if that makes 6,
\* removes the oldest, so the list is the most recent saves in insertion
\* order; a quick-save with an empty name leaves the list unchanged;
\* clear-all leaves it empty.
C27_RaskLagring ==
    [][ modul = "lagring" =>
          /\ Len(quick_saves) <= 5 /\ Len(quick_saves') <= 5
          /\ (klokke' # klokke /\ knapp' = "lagre" /\ save_name # "") =>
                 quick_saves' =
                     SisteFem(Append(quick_saves,
                                     [navn |-> save_name, tid |-> klokke']))
          /\ (klokke' # klokke /\ knapp' = "lagre" /\ save_name = "") =>
                 quick_saves' = quick_saves
          /\ (klokke' # klokke /\ knapp' = "tom") => quick_saves' = << >>
          /\ klokke' = klokke => quick_saves' = quick_saves ]_vars

\* the list is full after six button presses, the last of them a save
C27_Witness ==
    /\ modul = "lagring" /\ knapp = "lagre" /\ klokke = 6
    /\ Len(quick_saves) = 5
    /\ quick_saves[1].tid = 2 /\ quick_saves[5].tid = 6
    /\ quick_saves[1].navn = "A" /\ quick_saves[5].navn = "B"

\* ------------------------------------------ tab7: Hybrid against Modell 2
\* the payouts of the sale itself under the named policy
Hovedoppgjor(modell) ==
    Utbetaling(modell, netto_salgssum, total_investert_a, total_investert_b,
               total_investert, egenkapital_a, egenkapital_b, egenkapital,
               verdiendring_kr)

\* the gains of the scenario row of an appreciation under the named policy
Radgevinst(modell, endring_prosent) ==
    LET u == ScenarioUtbetaling(modell, ScenarioNetto(endring_prosent),
                                total_investert_a, total_investert_b,
                                total_investert, egenkapital_a, egenkapital,
                                endring_prosent)
    IN  << QSub(u[1], total_investert_a), QSub(u[2], total_investert_b) >>

AnnenModell == IF fordelingsmodell = "Modell 4" THEN "Modell 2" ELSE "Modell 4"

\* C28: with boligpris = egenkapital + laan, egenkapital_a + egenkapital_b =
\* egenkapital and selling costs >= 0, Modell 4 (Hybrid) pays exactly what
\* Modell 2 pays, in the settlement of the sale and in every row of the
\* scenario table, because netto_salgssum - total_investert =
\* verdiendring_kr - salgskostnader.
C28_HybridSomModell2 ==
    (UtbetaltSalg /\ fordelingsmodell \in {"Modell 2", "Modell 4"}) =>
        /\ QInt(boligpris) = QAdd(egenkapital, QInt(laan))
        /\ QAdd(egenkapital_a, egenkapital_b) = egenkapital
        /\ QLe(QInt(0), salgskostnader)
        /\ QSub(netto_salgssum, total_investert) =
               QSub(verdiendring_kr, salgskostnader)
        /\ << utbetaling_a, utbetaling_b >> = Hovedoppgjor(AnnenModell)
        /\ Hovedoppgjor("Modell 4") = Hovedoppgjor("Modell 2")
        /\ pc = "slutt" =>
               \A k \in 1 .. Len(SCENARIOS) :
                   /\ << scenario_resultater[k].GevinstA,
                         scenario_resultater[k].GevinstB >> =
                          Radgevinst(AnnenModell, SCENARIOS[k])
                   /\ Radgevinst("Modell 4", SCENARIOS[k]) =
                          Radgevinst("Modell 2", SCENARIOS[k])

\* a sale with a gain under Hybrid, unequal equity, and a loss in one row
C28_Witness ==
    /\ Tabell /\ fordelingsmodell = "Modell 4"
    /\ QGt(netto_salgssum, total_investert)
    /\ egenkapital_a # egenkapital_b
    /\ utbetaling_a # utbetaling_b
    /\ QLt(scenario_resultater[1].GevinstA, QInt(0))
    /\ QLt(QInt(0), scenario_resultater[6].GevinstA)

\* ----------------------------- tab7: scenario table against the settlement
\* the row of the selected appreciation repeats the settlement of the sale
RadSomHovedoppgjor ==
    Tabell =>
        \A k \in 1 .. Len(SCENARIOS) :
            SCENARIOS[k] = verdiendring_prosent =>
                /\ scenario_resultater[k].GevinstA =
                       QSub(utbetaling_a, total_investert_a)
                /\ scenario_resultater[k].GevinstB =
                       QSub(utbetaling_b, total_investert_b)

\* the gains of every row add up to scenario_netto of line 2511 less the
\* total investment
RadgevinstAvScenarioNetto ==
    Tabell =>
        \A k \in 1 .. Len(SCENARIOS) :
            QAdd(scenario_resultater[k].GevinstA, scenario_resultater[k].GevinstB) =
                QSub(ScenarioNetto(SCENARIOS[k]), total_investert)

\* C29: when the selected appreciation is one of the table's percentages,
\* that row's gains are the settlement's payouts less each party's total
\* investment, for each of the four policies; and in every row the two gains
\* add up to the row's net proceeds (sale price of the row, less selling
\* costs of salgskostnader_prosent of it, less the outstanding loan) less
\* the total investment.
C29_RadMotHovedoppgjor ==
    /\ RadSomHovedoppgjor
    /\ Tabell =>
           \A k \in 1 .. Len(SCENARIOS) :
               QAdd(scenario_resultater[k].GevinstA,
                    scenario_resultater[k].GevinstB) =
                   QSub(NettoVedEndring(SCENARIOS[k]), total_investert)

\* --------------------------------------------- policy names not listed
\* a call of beregn_fordeling or a call of generer_renteprognose
InitPolicynavn == InitFordeling \/ InitPrognose

NextPolicynavn == NextFordeling \/ NextPrognose

SpecPolicynavn == InitPolicynavn /\ [][NextPolicynavn]_vars

\* C30: a policy name that is not listed never raises: beregn_fordeling with
\* a policy other than "50/50", "Proporsjonal etter inntekt" and
\* "Egendefinert" returns (amount/2, amount/2), and generer_renteprognose
\* with a name other than "norges_bank", "optimistisk", "pessimistisk", "lav"
\* and "moderat" returns the high path from the base rate: +0.5 in the first
\* 2 years, +0.3 in the next 3, +0.1 afterwards, under the ceiling 8.0.
C30_UkjentNavn ==
    /\ (/\ modul = "fordeling" /\ pc = "ferdig"
        /\ fordeling_type \notin {"50/50", "Proporsjonal etter inntekt",
                                  "Egendefinert"}) =>
           /\ kostnad_a = QDiv(total_kostnad, QInt(2))
           /\ kostnad_b = QDiv(total_kostnad, QInt(2))
    /\ (/\ PrognoseFerdig
        /\ prognose_type \notin {"norges_bank", "optimistisk", "pessimistisk",
                                 "lav", "moderat"}) =>
           /\ utfall = "verdi"
           /\ Len(prognose_renter) = 10
           /\ \A k \in 1 .. 10 :
                  prognose_renter[k] =
                      QMin(QInt(8),
                           QAdd(basis_rente,
                                Opptrapping(k, 2, 5, Q(1, 2), Q(3, 10), Q(1, 10))))

\* an unlisted forecast name: the path rises from 5.9 and ends at the ceiling
C30_Witness ==
    /\ PrognoseFerdig /\ prognose_type = "annet" /\ utfall = "verdi"
    /\ basis_rente = Q(59, 10)
    /\ prognose_renter[1] = Q(64, 10)
    /\ prognose_renter[10] = QInt(8)

====
